---- MODULE Spec2Model ----
(***************************************************************************)
(* Car-quote application: the pricing engine (backend/calculator.py and    *)
(* its copy in mcp/auto_quote_mcp.py), the quote-management tools of       *)
(* backend/main.py, and the quote repository those tools talk to.          *)
(*                                                                         *)
(* Number representation.  The source computes in IEEE doubles; the model  *)
(* computes the same products exactly, as integer numerators over fixed    *)
(* powers of ten:                                                          *)
(*   money                       cents                                     *)
(*   age, category, value,       tenths      (2.0 -> 20, 0.9 -> 9)         *)
(*   driving, tier multipliers                                             *)
(*   marital, ownership, year    hundredths  (0.95 -> 95, 1.11 -> 111)     *)
(*   location                    thousandths (0.8 + h*0.007 -> 800 + 7h)   *)
(* The adjusted premium is then a numerator over AdjDen = 10^13 cents,     *)
(* kept as a little-endian sequence of base-100 limbs because it does not *)
(* fit a machine integer.                                                  *)
(***************************************************************************)
EXTENDS Integers, Sequences, FiniteSets, TLC

VARIABLES
    now_year,   \* datetime.now().year as read by the handler
    now,        \* month, day and second of the day of datetime.now()
    req,        \* the request a pricing entry point was called with
    path,       \* which entry point priced it: "none", "backend", "mcp"
    out,        \* what the entry point returned
    store,      \* the repository's durable collection: a sequence of records
    lock,       \* the caller whose request holds the collection lock, or 0
    pc,         \* pc[c]: where caller c's tool call stands
    call,       \* call[c]: the tool and the arguments caller c invoked
    target,     \* target[c]: the id in the URL of c's POST /api/quotes/{id}
    payload,    \* payload[c]: the JSON body of c's POST
    snap,       \* snap[c]: the collection as loaded by c's request
    result,     \* result[c]: what the tool returned to caller c
    exists      \* whether the durable store has been created

pricing_vars == <<now_year, now, req, path, out>>
repo_vars == <<store, lock, pc, call, target, payload, snap, result, exists>>
vars == <<now_year, now, req, path, out, store, lock, pc, call, target, payload, snap,
          result, exists>>

-----------------------------------------------------------------------------
(* Bounds of the model *)

\* The wall-clock year of the run.
ClockYear == 2026

\* The number of tool calls that run concurrently against the repository.
NumCallers == 2

\* The instant of the run within its year: 2 November, at midnight.
ClockInstant == [month |-> 11, day |-> 2, second |-> 0]

-----------------------------------------------------------------------------
(* Enumerations: backend/models.py *)

VehicleCategory == {"Economy", "Standard", "Luxury"}
CoverageLevel == {"Basic", "Standard", "Premium"}
MaritalStatus == {"Single", "Married", "Divorced", "Widowed"}
HomeOwnership == {"Own", "Rent", "Other"}
CarOwnership == {"Own", "Lease", "Finance"}
VehicleValue == {"Under $5,000", "$5,000 - $40,000", "Over $40,000"}
DrivingFrequency == {"Very Little", "Average", "A Lot"}

MinAge == 16
MaxAge == 120
\* validate_year: current_year - 20 .. current_year + 1
MaxVehicleAge == 20
MaxYearAhead == 1

-----------------------------------------------------------------------------
(* Helpers *)

\* dict.get(key, default)
DictGet(d, k, default) == IF k \in DOMAIN d THEN d[k] ELSE default

Max(a, b) == IF a >= b THEN a ELSE b

RECURSIVE SumField(_, _)
\* sum(item[field] for item in items)
SumField(items, field) ==
    IF items = <<>> THEN 0
    ELSE Head(items)[field] + SumField(Tail(items), field)

\* round(n / d) to the nearest integer, ties to even, for n >= 0 and d > 0
RoundDiv(n, d) ==
    LET q == n \div d
        r == n % d
    IN  IF 2 * r > d THEN q + 1
        ELSE IF 2 * r < d THEN q
        ELSE IF q % 2 = 0 THEN q ELSE q + 1

\* Exact products: little-endian limbs in base LimbBase
LimbBase == 10 * 10

RECURSIVE BigMul(_, _, _)
\* limbs * k + carry, for a small non-negative integer k
BigMul(limbs, k, carry) ==
    IF limbs = <<>>
    THEN IF carry = 0 THEN <<>>
         ELSE <<carry % LimbBase>> \o BigMul(<<>>, k, carry \div LimbBase)
    ELSE LET t == Head(limbs) * k + carry
         IN  <<t % LimbBase>> \o BigMul(Tail(limbs), k, t \div LimbBase)

RECURSIVE BigProduct(_)
\* the product of a sequence of small non-negative integers
BigProduct(factors) ==
    IF factors = <<>> THEN <<1>>
    ELSE BigMul(BigProduct(Tail(factors)), Head(factors), 0)

RECURSIVE BigValue(_)
\* the integer a limb sequence stands for (when it fits)
BigValue(limbs) ==
    IF limbs = <<>> THEN 0
    ELSE Head(limbs) + LimbBase * BigValue(Tail(limbs))

\* limbs from position i on (1-based), i.e. floor(n / LimbBase^(i-1))
BigShift(limbs, i) ==
    IF i > Len(limbs) THEN <<>> ELSE SubSeq(limbs, i, Len(limbs))

\* TRUE iff the low i limbs are all zero, i.e. LimbBase^i divides n
BigLowZero(limbs, i) ==
    \A j \in 1..i : j > Len(limbs) \/ limbs[j] = 0

-----------------------------------------------------------------------------
(* Factor library: backend/calculator.py *)

_get_bodily_injury_limit(coverage_level) ==
    DictGet([Basic |-> "$15,000/$30,000",
             Standard |-> "$50,000/$100,000",
             Premium |-> "$100,000/$300,000"],
            coverage_level, "$15,000/$30,000")

_get_property_damage_limit(coverage_level) ==
    DictGet([Basic |-> "$5,000",
             Standard |-> "$25,000",
             Premium |-> "$50,000"],
            coverage_level, "$5,000")

_get_um_limit(coverage_level) ==
    DictGet([Basic |-> "$15,000/$30,000",
             Standard |-> "$50,000/$100,000",
             Premium |-> "$100,000/$300,000"],
            coverage_level, "$15,000/$30,000")

\* The bracket edges taken as inclusive: age <= 20, <= 25, ...
AgeFactorInclusiveEdges(age) ==
    IF age <= 20 THEN 20
    ELSE IF age <= 25 THEN 15
    ELSE IF age <= 30 THEN 12
    ELSE IF age <= 60 THEN 10
    ELSE IF age <= 70 THEN 11
    ELSE 13

\* The 1.5 and 1.2 brackets exchanged
AgeFactorSwappedBrackets(age) ==
    IF age < 20 THEN 20
    ELSE IF age < 25 THEN 12
    ELSE IF age < 30 THEN 15
    ELSE IF age < 60 THEN 10
    ELSE IF age < 70 THEN 11
    ELSE 13

\* tenths
_calculate_age_factor(age) ==
    IF age < 20 THEN 20
    ELSE IF age < 25 THEN 15
    ELSE IF age < 30 THEN 12
    ELSE IF age < 60 THEN 10
    ELSE IF age < 70 THEN 11
    ELSE 13

\* One ZIP code for every value of the digest modulo 100: ZipTable[h + 1] is
\* a ZIP code whose md5 digest, read as an integer, is h modulo 100
ZipTable ==
    <<"00007", "00046", "00192", "00037", "00239", "00078", "00033", "00116",
       "00056", "00062", "00044", "00045", "00200", "00021", "00193", "12345",
       "00074", "00092", "00086", "00145", "00133", "00059", "00003", "00278",
       "00088", "00047", "00061", "00125", "00127", "00070", "00035", "00029",
       "00000", "00158", "00052", "00015", "00012", "00030", "00183", "00067",
       "00055", "00080", "00027", "00016", "00136", "00043", "00299", "00139",
       "00001", "00068", "00038", "00008", "00017", "00119", "00142", "00393",
       "00262", "00048", "00042", "00132", "00022", "00077", "90210", "00014",
       "00028", "00066", "00113", "00041", "00315", "00111", "00023", "00011",
       "00013", "00118", "00009", "00104", "00002", "10001", "00005", "00018",
       "00189", "00093", "00373", "00188", "00064", "00084", "00089", "00115",
       "00024", "00106", "00006", "00083", "00355", "00091", "00054", "00149",
       "00208", "00110", "00053", "00140">>

\* hashlib.md5(zip_code.encode()).hexdigest() as an integer, modulo 100, for
\* the ZIP codes of the table and for the malformed ZIP codes of the
\* requests (the digest is tabulated, not recomputed)
Md5Mod100(zip_code) ==
    CASE zip_code = "90210\n" -> 95
      [] zip_code = "1234" -> 37
      [] zip_code = "9021a" -> 80
      [] zip_code = "902101" -> 32
      [] OTHER -> (CHOOSE i \in 1..Len(ZipTable) : ZipTable[i] = zip_code) - 1

\* A location factor with the slope 0.8 instead of 0.7
LocationFactorSteeper(zip_code) == 800 + Md5Mod100(zip_code) * 8

\* thousandths: 0.8 + (zip_hash / 100) * 0.7
_calculate_location_factor(zip_code) ==
    LET zip_hash == Md5Mod100(zip_code)
    IN  800 + zip_hash * 7

\* The default of the lookup taken from the first entry
MaritalFactorDefaultSingle(marital_status) ==
    DictGet([Single |-> 110, Married |-> 90, Divorced |-> 100, Widowed |-> 95],
            marital_status, 110)

\* hundredths
_calculate_marital_factor(marital_status) ==
    DictGet([Single |-> 110, Married |-> 90, Divorced |-> 100, Widowed |-> 95],
            marital_status, 100)

\* The year term also capped at 1.2 for vehicles newer than this year's
VehicleFactorCappedNew(vehicle_category, vehicle_year, vehicle_value, car_ownership, current_year) ==
    LET category_factor ==
            DictGet([Economy |-> 9, Standard |-> 10, Luxury |-> 13],
                    vehicle_category, 10)
        vehicle_age == Max(0, current_year - vehicle_year)
        age_factor == Max(80, 120 - vehicle_age * 3)
        value_factor ==
            DictGet(("Under $5,000" :> 8) @@ ("$5,000 - $40,000" :> 10)
                        @@ ("Over $40,000" :> 13),
                    vehicle_value, 10)
        ownership_factor ==
            DictGet([Own |-> 95, Finance |-> 100, Lease |-> 105],
                    car_ownership, 100)
    IN  category_factor * age_factor * value_factor * ownership_factor

\* millionths: category (tenths) * year term (hundredths) * value (tenths)
\* * ownership (hundredths)
_calculate_vehicle_factor(vehicle_category, vehicle_year, vehicle_value, car_ownership, current_year) ==
    LET category_factor ==
            DictGet([Economy |-> 9, Standard |-> 10, Luxury |-> 13],
                    vehicle_category, 10)
        vehicle_age == current_year - vehicle_year
        age_factor == Max(80, 120 - vehicle_age * 3)
        value_factor ==
            DictGet(("Under $5,000" :> 8) @@ ("$5,000 - $40,000" :> 10)
                        @@ ("Over $40,000" :> 13),
                    vehicle_value, 10)
        ownership_factor ==
            DictGet([Own |-> 95, Finance |-> 100, Lease |-> 105],
                    car_ownership, 100)
    IN  category_factor * age_factor * value_factor * ownership_factor

\* tenths
_calculate_driving_factor(driving_frequency) ==
    DictGet(("Very Little" :> 8) @@ ("Average" :> 10) @@ ("A Lot" :> 12),
            driving_frequency, 10)

-----------------------------------------------------------------------------
(* Coverage lines: backend/calculator.py _calculate_coverage_details *)

\* One coverage line; premium is round(premium, 2) in cents.  The static
\* description text of a line is not modelled.
CoverageLine(name, amount, premium) ==
    [name |-> name, amount |-> amount, premium |-> premium]

\* The 1.2 applied at every coverage level
TierFactorEveryLevel(coverage_level) ==
    IF coverage_level \in {"Basic", "Standard", "Premium"} THEN 12 ELSE 10

\* The Premium-only 1.2 (tenths)
PremiumTierFactor(coverage_level) ==
    IF coverage_level = "Premium" THEN 12 ELSE 10

\* The two deductibles exchanged
DeductibleSwapped(coverage_level) ==
    IF coverage_level = "Premium" THEN "$500 deductible" ELSE "$250 deductible"

\* deductible = "$250" if coverage_level == "Premium" else "$500"
Deductible(coverage_level) ==
    IF coverage_level = "Premium" THEN "$250 deductible" ELSE "$500 deductible"

\* Optional coverages for Premium only
HasOptionalCoveragesPremiumOnly(coverage_level) ==
    coverage_level = "Premium"

\* coverage_level in ["Standard", "Premium"]
HasOptionalCoverages(coverage_level) ==
    coverage_level \in {"Standard", "Premium"}

_calculate_coverage_details(coverage_level, vehicle_value) ==
    LET multiplier ==
            DictGet([Basic |-> 10, Standard |-> 13, Premium |-> 17],
                    coverage_level, 10)
        value_multiplier ==
            DictGet(("Under $5,000" :> 8) @@ ("$5,000 - $40,000" :> 10)
                        @@ ("Over $40,000" :> 14),
                    vehicle_value, 10)
        tier == PremiumTierFactor(coverage_level)
        \* dollars * tenths -> cents is * 10; dollars * tenths * tenths is * 1
        liability ==
            << CoverageLine("Bodily Injury Liability",
                            _get_bodily_injury_limit(coverage_level),
                            250 * multiplier * 10),
               CoverageLine("Property Damage Liability",
                            _get_property_damage_limit(coverage_level),
                            150 * multiplier * 10),
               CoverageLine("Uninsured/Underinsured Motorist Bodily Injury",
                            _get_um_limit(coverage_level),
                            100 * multiplier * 10) >>
        rental ==
            IF HasOptionalCoverages(coverage_level)
            THEN << CoverageLine("Rental Car Coverage",
                                 IF coverage_level = "Premium"
                                 THEN "$30/day, $900 maximum"
                                 ELSE "$25/day, $750 maximum",
                                 50 * tier * 10) >>
            ELSE <<>>
        own_damage ==
            IF HasOptionalCoverages(coverage_level)
            THEN << CoverageLine("Comprehensive", Deductible(coverage_level),
                                 200 * value_multiplier * tier),
                    CoverageLine("Collision", Deductible(coverage_level),
                                 300 * value_multiplier * tier) >>
            ELSE <<>>
    IN  liability \o rental \o own_damage

-----------------------------------------------------------------------------
(* Discounts: backend/calculator.py _calculate_discounts *)

Discount(name, amount) == [name |-> name, amount |-> amount]

\* The upper edge excluded: age < 65
ExperiencedDriverUnder65(age) == age >= 30 /\ age < 65

\* age >= 30 and age <= 65
ExperiencedDriver(age) == age >= 30 /\ age <= 65

\* The edge excluded: current_year - vehicle_year < 3
NewVehicleUnder3(vehicle_year, current_year) == current_year - vehicle_year < 3

\* current_year - vehicle_year <= 3
NewVehicle(vehicle_year, current_year) == current_year - vehicle_year <= 3

\* Multi-Policy made exclusive with Homeowner (an elif in place of the if)
MultiPolicyElif(home_ownership, coverage_level) ==
    home_ownership # "Own" /\ coverage_level = "Premium"

\* home_ownership == "Own" and coverage_level == "Premium"
MultiPolicy(home_ownership, coverage_level) ==
    home_ownership = "Own" /\ coverage_level = "Premium"

\* The discounts with the Vehicle Owner test moved to the front
DiscountsOwnerFirst(marital_status, age, home_ownership, car_ownership, vehicle_year, coverage_level, current_year) ==
    (IF car_ownership = "Own"
        THEN <<Discount("Vehicle Owner Discount", 3000)>> ELSE <<>>)
    \o (IF home_ownership = "Own"
        THEN <<Discount("Homeowner Discount", 7500)>> ELSE <<>>)
    \o (IF marital_status = "Married"
        THEN <<Discount("Married Driver Discount", 5000)>> ELSE <<>>)
    \o (IF ExperiencedDriver(age)
        THEN <<Discount("Experienced Driver Discount", 4000)>> ELSE <<>>)
    \o (IF MultiPolicy(home_ownership, coverage_level)
        THEN <<Discount("Multi-Policy Discount", 10000)>> ELSE <<>>)
    \o (IF NewVehicle(vehicle_year, current_year)
        THEN <<Discount("New Vehicle Discount", 6000)>> ELSE <<>>)

\* amounts in cents; each test appends independently, in source order
_calculate_discounts(marital_status, age, home_ownership, car_ownership, vehicle_year, coverage_level, current_year) ==
    (IF home_ownership = "Own"
        THEN <<Discount("Homeowner Discount", 7500)>> ELSE <<>>)
    \o (IF marital_status = "Married"
        THEN <<Discount("Married Driver Discount", 5000)>> ELSE <<>>)
    \o (IF ExperiencedDriver(age)
        THEN <<Discount("Experienced Driver Discount", 4000)>> ELSE <<>>)
    \o (IF MultiPolicy(home_ownership, coverage_level)
        THEN <<Discount("Multi-Policy Discount", 10000)>> ELSE <<>>)
    \o (IF NewVehicle(vehicle_year, current_year)
        THEN <<Discount("New Vehicle Discount", 6000)>> ELSE <<>>)
    \o (IF car_ownership = "Own"
        THEN <<Discount("Vehicle Owner Discount", 3000)>> ELSE <<>>)

-----------------------------------------------------------------------------
(* The pricing pipeline: backend/calculator.py calculate_insurance_quote *)

\* The adjusted premium is a numerator over 10^13 cents (see the header).
\* floor(adjusted / 10^12): the numerator without its six low limbs
AdjHigh(adjusted) == BigValue(BigShift(adjusted, 7))

\* floor(adjusted premium) in cents
FloorCents(adjusted) == AdjHigh(adjusted) \div 10

\* The adjusted premium cut off, not rounded, at the cent
RoundCentsTruncated(adjusted) == AdjHigh(adjusted) \div 10

\* round(adjusted_premium, 2) in cents, ties to even
RoundCents(adjusted) ==
    LET q == AdjHigh(adjusted) \div 10
        r == AdjHigh(adjusted) % 10
        exact == BigLowZero(adjusted, 6)
    IN  IF r > 5 \/ (r = 5 /\ ~exact) THEN q + 1
        ELSE IF r < 5 THEN q
        ELSE IF q % 2 = 0 THEN q ELSE q + 1

\* A final premium without the $50 floor
FinalPremiumNoFloor(adjusted, total_discounts) ==
    RoundCents(adjusted) - total_discounts

\* round(max(50, adjusted_premium - total_discounts), 2) in cents
FinalPremium(adjusted, total_discounts) ==
    IF FloorCents(adjusted) - total_discounts >= 5000
    THEN RoundCents(adjusted) - total_discounts
    ELSE 5000

\* The returned dictionary.  Factors are the rounded values of the return
\* statement, in hundredths; money is in cents.  quote_id and
\* expiration_date are minted separately (they read the clock and the
\* random generator and do not depend on the request).
calculate_insurance_quote(r, current_year) ==
    LET coverages == _calculate_coverage_details(r.coverage_level, r.vehicle_value)
        base_premium == SumField(coverages, "premium")
        age_factor == _calculate_age_factor(r.age)
        location_factor == _calculate_location_factor(r.zip_code)
        marital_factor == _calculate_marital_factor(r.marital_status)
        vehicle_factor == _calculate_vehicle_factor(r.vehicle_category, r.vehicle_year, r.vehicle_value, r.car_ownership, current_year)
        driving_factor == _calculate_driving_factor(r.driving_frequency)
        adjusted_premium == BigProduct(<<base_premium, age_factor, location_factor, marital_factor, vehicle_factor, driving_factor>>)
        discounts == _calculate_discounts(r.marital_status, r.age, r.home_ownership, r.car_ownership, r.vehicle_year, r.coverage_level, current_year)
        total_discounts == SumField(discounts, "amount")
    IN  [kind |-> "quote",
         coverages |-> coverages,
         base_premium |-> base_premium,
         age_factor |-> age_factor * 10,
         location_factor |-> RoundDiv(location_factor, 10),
         marital_factor |-> marital_factor,
         vehicle_factor |-> RoundDiv(vehicle_factor, 10000),
         driving_factor |-> driving_factor * 10,
         discounts |-> discounts,
         subtotal |-> RoundCents(adjusted_premium),
         total_discounts |-> total_discounts,
         final_premium |-> FinalPremium(adjusted_premium, total_discounts)]

-----------------------------------------------------------------------------
(* Factor library, second copy: mcp/auto_quote_mcp.py *)

mcp_get_bodily_injury_limit(coverage_level) ==
    DictGet([Basic |-> "$15,000/$30,000",
             Standard |-> "$50,000/$100,000",
             Premium |-> "$100,000/$300,000"],
            coverage_level, "$15,000/$30,000")

mcp_get_property_damage_limit(coverage_level) ==
    DictGet([Basic |-> "$5,000",
             Standard |-> "$25,000",
             Premium |-> "$50,000"],
            coverage_level, "$5,000")

mcp_get_um_limit(coverage_level) ==
    DictGet([Basic |-> "$15,000/$30,000",
             Standard |-> "$50,000/$100,000",
             Premium |-> "$100,000/$300,000"],
            coverage_level, "$15,000/$30,000")

\* tenths
mcp_calculate_age_factor(age) ==
    IF age < 20 THEN 20
    ELSE IF age < 25 THEN 15
    ELSE IF age < 30 THEN 12
    ELSE IF age < 60 THEN 10
    ELSE IF age < 70 THEN 11
    ELSE 13

\* thousandths: 0.8 + (zip_hash / 100) * 0.7
mcp_calculate_location_factor(zip_code) ==
    LET zip_hash == Md5Mod100(zip_code)
    IN  800 + zip_hash * 7

\* hundredths
mcp_calculate_marital_factor(marital_status) ==
    DictGet([Single |-> 110, Married |-> 90, Divorced |-> 100, Widowed |-> 95],
            marital_status, 100)

\* millionths: category (tenths) * year term (hundredths) * value (tenths)
\* * ownership (hundredths)
mcp_calculate_vehicle_factor(vehicle_category, vehicle_year, vehicle_value, car_ownership, current_year) ==
    LET category_factor ==
            DictGet([Economy |-> 9, Standard |-> 10, Luxury |-> 13],
                    vehicle_category, 10)
        vehicle_age == current_year - vehicle_year
        age_factor == Max(80, 120 - vehicle_age * 3)
        value_factor ==
            DictGet(("Under $5,000" :> 8) @@ ("$5,000 - $40,000" :> 10)
                        @@ ("Over $40,000" :> 13),
                    vehicle_value, 10)
        ownership_factor ==
            DictGet([Own |-> 95, Finance |-> 100, Lease |-> 105],
                    car_ownership, 100)
    IN  category_factor * age_factor * value_factor * ownership_factor

\* The second copy with 'A Lot' at 1.3
McpDrivingFactorDrifted(driving_frequency) ==
    DictGet(("Very Little" :> 8) @@ ("Average" :> 10) @@ ("A Lot" :> 13),
            driving_frequency, 10)

\* tenths
mcp_calculate_driving_factor(driving_frequency) ==
    DictGet(("Very Little" :> 8) @@ ("Average" :> 10) @@ ("A Lot" :> 12),
            driving_frequency, 10)

-----------------------------------------------------------------------------
(* Coverage lines, second copy: mcp/auto_quote_mcp.py _calculate_coverage_details *)

mcp_calculate_coverage_details(coverage_level, vehicle_value) ==
    LET multiplier ==
            DictGet([Basic |-> 10, Standard |-> 13, Premium |-> 17],
                    coverage_level, 10)
        value_multiplier ==
            DictGet(("Under $5,000" :> 8) @@ ("$5,000 - $40,000" :> 10)
                        @@ ("Over $40,000" :> 14),
                    vehicle_value, 10)
        tier == (IF coverage_level = "Premium" THEN 12 ELSE 10)
        \* dollars * tenths -> cents is * 10; dollars * tenths * tenths is * 1
        liability ==
            << CoverageLine("Bodily Injury Liability",
                            mcp_get_bodily_injury_limit(coverage_level),
                            250 * multiplier * 10),
               CoverageLine("Property Damage Liability",
                            mcp_get_property_damage_limit(coverage_level),
                            150 * multiplier * 10),
               CoverageLine("Uninsured/Underinsured Motorist Bodily Injury",
                            mcp_get_um_limit(coverage_level),
                            100 * multiplier * 10) >>
        rental ==
            IF coverage_level \in {"Standard", "Premium"}
            THEN << CoverageLine("Rental Car Coverage",
                                 IF coverage_level = "Premium"
                                 THEN "$30/day, $900 maximum"
                                 ELSE "$25/day, $750 maximum",
                                 50 * tier * 10) >>
            ELSE <<>>
        own_damage ==
            IF coverage_level \in {"Standard", "Premium"}
            THEN << CoverageLine("Comprehensive", (IF coverage_level = "Premium" THEN "$250 deductible" ELSE "$500 deductible"),
                                 200 * value_multiplier * tier),
                    CoverageLine("Collision", (IF coverage_level = "Premium" THEN "$250 deductible" ELSE "$500 deductible"),
                                 300 * value_multiplier * tier) >>
            ELSE <<>>
    IN  liability \o rental \o own_damage

-----------------------------------------------------------------------------
(* Discounts, second copy: mcp/auto_quote_mcp.py _calculate_discounts *)

\* amounts in cents; each test appends independently, in source order
mcp_calculate_discounts(marital_status, age, home_ownership, car_ownership, vehicle_year, coverage_level, current_year) ==
    (IF home_ownership = "Own"
        THEN <<Discount("Homeowner Discount", 7500)>> ELSE <<>>)
    \o (IF marital_status = "Married"
        THEN <<Discount("Married Driver Discount", 5000)>> ELSE <<>>)
    \o (IF (age >= 30 /\ age <= 65)
        THEN <<Discount("Experienced Driver Discount", 4000)>> ELSE <<>>)
    \o (IF (home_ownership = "Own" /\ coverage_level = "Premium")
        THEN <<Discount("Multi-Policy Discount", 10000)>> ELSE <<>>)
    \o (IF current_year - vehicle_year <= 3
        THEN <<Discount("New Vehicle Discount", 6000)>> ELSE <<>>)
    \o (IF car_ownership = "Own"
        THEN <<Discount("Vehicle Owner Discount", 3000)>> ELSE <<>>)


-----------------------------------------------------------------------------
(* The MCP tool: mcp/auto_quote_mcp.py calculate_quote *)

\* len(zip_code) and zip_code.isdigit() for the ZIP strings of the model
\* len(zip_code), for the strings the model submits
ZipLen(zip_code) ==
    CASE zip_code = "1234" -> 4
      [] zip_code = "902101" -> 6
      [] zip_code = "90210\n" -> 6
      [] OTHER -> 5

\* zip_code.isdigit()
ZipIsDigit(zip_code) == zip_code \notin {"9021a", "90210\n"}

\* re.match(r'^\d{5}$', zip_code): five digits up to the end of the string,
\* where $ also matches just before a newline that ends the string
ZipMatches(zip_code) ==
    LET before_end == IF zip_code = "90210\n" THEN "90210" ELSE zip_code
    IN  ZipLen(before_end) = 5 /\ ZipIsDigit(before_end)

ErrorValue(message) == [kind |-> "error", error |-> message]

\* The first failing validation of lines 173-205, or "" when all pass
mcp_validate(r, current_year) ==
    LET min_year == current_year - 20
    IN  IF r.age < 16 \/ r.age > 120
            THEN "Driver age must be between 16 and 120"
        ELSE IF r.vehicle_year < min_year \/ r.vehicle_year > current_year + 1
            THEN "Vehicle year must be between min_year and current_year + 1"
        ELSE IF ~(ZipLen(r.zip_code) = 5 /\ ZipIsDigit(r.zip_code))
            THEN "ZIP code must be a 5-digit number"
        ELSE IF r.vehicle_category \notin VehicleCategory
            THEN "Invalid vehicle category"
        ELSE IF r.coverage_level \notin CoverageLevel
            THEN "Invalid coverage level"
        ELSE IF r.marital_status \notin MaritalStatus
            THEN "Invalid marital status"
        ELSE IF r.home_ownership \notin HomeOwnership
            THEN "Invalid home ownership"
        ELSE IF r.car_ownership \notin CarOwnership
            THEN "Invalid car ownership"
        ELSE IF r.vehicle_value \notin VehicleValue
            THEN "Invalid vehicle value"
        ELSE IF r.driving_frequency \notin DrivingFrequency
            THEN "Invalid driving frequency"
        ELSE ""

\* The returned dictionary of the MCP tool (nested); quote_reference is
\* minted separately, as for the backend.
mcp_calculate_quote(r, current_year) ==
    LET coverages == mcp_calculate_coverage_details(r.coverage_level, r.vehicle_value)
        base_premium == SumField(coverages, "premium")
        age_factor == mcp_calculate_age_factor(r.age)
        location_factor == mcp_calculate_location_factor(r.zip_code)
        marital_factor == mcp_calculate_marital_factor(r.marital_status)
        vehicle_factor == mcp_calculate_vehicle_factor(r.vehicle_category, r.vehicle_year, r.vehicle_value, r.car_ownership, current_year)
        driving_factor == mcp_calculate_driving_factor(r.driving_frequency)
        adjusted_premium == BigProduct(<<base_premium, age_factor, location_factor, marital_factor, vehicle_factor, driving_factor>>)
        discounts == mcp_calculate_discounts(r.marital_status, r.age, r.home_ownership, r.car_ownership, r.vehicle_year, r.coverage_level, current_year)
        total_discounts == SumField(discounts, "amount")
    IN  IF mcp_validate(r, current_year) # ""
        THEN ErrorValue(mcp_validate(r, current_year))
        ELSE [kind |-> "quote",
              quote_details |-> r,
              coverages |-> coverages,
              pricing_factors |->
                 [base_premium |-> base_premium,
                  age_factor |-> age_factor * 10,
                  location_factor |-> RoundDiv(location_factor, 10),
                  marital_factor |-> marital_factor,
                  vehicle_factor |-> RoundDiv(vehicle_factor, 10000),
                  driving_factor |-> driving_factor * 10],
              discounts |-> discounts,
              pricing_summary |->
                 [subtotal |-> RoundCents(adjusted_premium),
                  total_discounts |-> total_discounts,
                  final_premium |-> FinalPremium(adjusted_premium, total_discounts)]]

-----------------------------------------------------------------------------
(* Requests *)

QuoteRequestOf(cat, year, cov, mar, age, home, car, val, drv, zip) ==
    [vehicle_category |-> cat, vehicle_year |-> year, coverage_level |-> cov,
     marital_status |-> mar, age |-> age, home_ownership |-> home,
     car_ownership |-> car, vehicle_value |-> val, driving_frequency |-> drv,
     zip_code |-> zip]

NoRequest == [kind |-> "none"]
NoOutput == [kind |-> "none"]

\* Driver ages the pricing specification draws from: the highest factor
\* (2.0, no discount), the sample request's (1.0, discount), 1.1 with the
\* discount and 1.3 without.  AgeSpec and DiscountSpec cover every age.
Ages == {16, 35, 65, 70}

\* Vehicle ages (current_year - vehicle_year): next year's model, the sample
\* request's (the last new-vehicle year), the first at the year term's floor
VehicleAges == {-1, 3, 14}

\* ZIP codes: digest 0 (the lowest location factor) and the sample request's
Zips == {"00007", "90210"}

\* mcp/auto_quote_mcp.py sample_quote_request
sample_quote_request(current_year) ==
    QuoteRequestOf("Standard", current_year - 3, "Standard", "Married", 35,
                   "Own", "Finance", "$5,000 - $40,000", "Average", "90210")

\* backend/models.py QuoteRequest: enum membership, age bounds, validate_year
\* and validate_zip_code
QuoteRequestValid(r, current_year) ==
    /\ r.vehicle_category \in VehicleCategory
    /\ r.coverage_level \in CoverageLevel
    /\ r.marital_status \in MaritalStatus
    /\ r.age >= MinAge /\ r.age <= MaxAge
    /\ r.home_ownership \in HomeOwnership
    /\ r.car_ownership \in CarOwnership
    /\ r.vehicle_value \in VehicleValue
    /\ r.driving_frequency \in DrivingFrequency
    /\ ~(r.vehicle_year < current_year - MaxVehicleAge
            \/ r.vehicle_year > current_year + MaxYearAhead)
    /\ ZipMatches(r.zip_code)

\* The /calculate-quote endpoint of the backend: the body is validated as a
\* QuoteRequest and, if valid, priced
calculate_quote_endpoint(r, current_year) ==
    IF QuoteRequestValid(r, current_year)
    THEN calculate_insurance_quote(r, current_year)
    ELSE ErrorValue("Unprocessable Entity")

\* backend/main.py calculate_quote: the tool checks the age and the ZIP
\* code, posts the request to /calculate-quote and returns the response,
\* or an error value for an error response
proxy_calculate_quote(r, current_year) ==
    IF r.age < 16
        THEN ErrorValue("Driver must be at least 16 years old")
    ELSE IF ~(ZipIsDigit(r.zip_code) /\ ZipLen(r.zip_code) = 5)
        THEN ErrorValue("ZIP code must be a 5-digit number")
    ELSE LET response == calculate_quote_endpoint(r, current_year)
         IN  IF response.kind = "error"
             THEN ErrorValue("Failed to calculate quote")
             ELSE response

\* Malformed requests: the sample request with one field out of range
InvalidRequests(current_year) ==
    LET s == sample_quote_request(current_year)
    IN  { [s EXCEPT !.age = 15], [s EXCEPT !.age = 121],
          [s EXCEPT !.vehicle_year = current_year - 21],
          [s EXCEPT !.vehicle_year = current_year + 2],
          [s EXCEPT !.zip_code = "1234"], [s EXCEPT !.zip_code = "9021a"],
          [s EXCEPT !.zip_code = "902101"], [s EXCEPT !.zip_code = "90210\n"],
          [s EXCEPT !.vehicle_category = "Sports"],
          [s EXCEPT !.coverage_level = "Gold"],
          [s EXCEPT !.marital_status = "Separated"],
          [s EXCEPT !.home_ownership = "Mortgage"],
          [s EXCEPT !.car_ownership = "Rent"],
          [s EXCEPT !.vehicle_value = "Unknown"],
          [s EXCEPT !.driving_frequency = "Daily"] }

-----------------------------------------------------------------------------
(* Quote repository: the collection behind GET /api/quotes and             *)
(* POST /api/quotes/{id}.  A record is a function from field names to      *)
(* values; a quote id "Q<n>" is the number n.                              *)

\* Python's None, as an argument of a tool
None == "None"

\* quote_id left at its default (None)
NoId == 0

\* datetime.now().strftime("%Y-%m-%d")
Today == "2026-11-02"

Callers == 1..NumCallers

HasId(records, id) == \E i \in 1..Len(records) : records[i].id = id

IndexOf(records, id) == CHOOSE i \in 1..Len(records) : records[i].id = id

\* The record a first upsert creates: the supplied fields under the id
CreateRecord(id, fields) == [id |-> id] @@ fields

\* The record a later upsert leaves: supplied fields set, the others kept
MergeFields(record, fields) == [id |-> record.id] @@ fields @@ record

\* upsert(id, partialFields) on a loaded collection
upsert(records, id, fields) ==
    IF HasId(records, id)
    THEN [records EXCEPT ![IndexOf(records, id)] = MergeFields(@, fields)]
    ELSE Append(records, CreateRecord(id, fields))

\* A lock that never excludes anyone
LockAlwaysFree(holder) == holder = holder

\* The collection-wide mutual exclusion of the mutating operations
LockFree(holder) == holder = 0

-----------------------------------------------------------------------------
(* Quote-management tools: backend/main.py *)

UpdateFields == {"customer", "email", "phone", "vehicle", "coverage", "status", "date"}

\* A value Python treats as true in "if premium:"
Truthy(v) == v # None /\ v # ""

UpdateDataAllFields(args) == [f \in UpdateFields |-> args[f]]

\* The date stamped whether or not another field is provided
UpdateDataDateAlways(args) ==
    LET provided == [f \in {g \in UpdateFields : args[g] # None} |-> args[f]]
    IN  IF args.date # None THEN provided ELSE [date |-> Today] @@ provided

\* update_quote: the payload holds only the provided fields, and today's
\* date when other fields are provided without one
update_data(args) ==
    LET provided == [f \in {g \in UpdateFields : args[g] # None} |-> args[f]]
    IN  IF args.date # None THEN provided
        ELSE IF DOMAIN provided # {} THEN [date |-> Today] @@ provided
        ELSE provided

\* qid.startswith("Q") and qid[1:].isdigit(): the id n > 0 stands for "Q<n>",
\* an id below 0 for a string of another form
IsQNumber(id) == id > 0

\* The highest existing number taken again, without the + 1
NextNumberNoIncrement(quotes) ==
    LET numeric_parts == {n \in {quotes[i].id : i \in 1..Len(quotes)} : IsQNumber(n)}
    IN  IF numeric_parts = {} THEN 1000 + 1
        ELSE CHOOSE n \in numeric_parts : \A k \in numeric_parts : k <= n

\* add_quote: max(numeric_parts, default=1000) + 1
next_number(quotes) ==
    LET numeric_parts == {n \in {quotes[i].id : i \in 1..Len(quotes)} : IsQNumber(n)}
    IN  IF numeric_parts = {} THEN 1000 + 1
        ELSE (CHOOSE n \in numeric_parts : \A k \in numeric_parts : k <= n) + 1

AddQuoteIdAlwaysGenerated(quote_id, quotes) == next_number(quotes)

\* add_quote: the id the record is posted under
AddQuoteId(quote_id, quotes) ==
    IF quote_id = NoId THEN next_number(quotes) ELSE quote_id

\* The record's fields with the id among them
QuoteDataWithId(args) ==
    [id |-> args.quote_id, customer |-> args.customer, email |-> args.email,
     phone |-> args.phone, vehicle |-> args.vehicle, coverage |-> args.coverage,
     status |-> args.status, date |-> Today]

\* add_quote: the record's fields
quote_data(args) ==
    (IF Truthy(args.premium) THEN [premium |-> args.premium] ELSE <<>>)
    @@ (IF Truthy(args.zip_code) THEN [zip |-> args.zip_code] ELSE <<>>)
    @@ [customer |-> args.customer, email |-> args.email, phone |-> args.phone,
        vehicle |-> args.vehicle, coverage |-> args.coverage,
        status |-> args.status, date |-> Today]

ErrorResult(message) == [success |-> FALSE, error |-> message, quote_id |-> NoId]

SuccessResult(message, id) == [success |-> TRUE, message |-> message, quote_id |-> id]

\* get_quote, update_quote, send_quote_email on a 404: "Quote {quote_id} not found"
NotFound(id) == [success |-> FALSE, error |-> "Quote not found", quote_id |-> id]

\* get_quote: the record of the response, under the id it was asked for
QuoteResult(id, record) ==
    [success |-> TRUE, message |-> "quote", quote_id |-> id, quote |-> record]

\* list_quotes: the records of the response
QuotesResult(records) ==
    [success |-> TRUE, message |-> "quotes", quote_id |-> NoId, quotes |-> records]

NoCall == [tool |-> "none"]

\* The ids callers name: one per caller, above every generated id
GivenIds == {2000 + c : c \in 0..(NumCallers - 1)}

\* An id callers name that is not of the form Q<digits>
ForeignIds == {-1}

\* The ids callers look up, change and email: two of the ids callers name
TargetIds == {2000, 2000 + 1}

\* The applicants add_quote is called for: <<customer, premium>>, one
\* without a premium and one with
Applicants == {<<"Jane Doe", None>>, <<"John Smith", "$1,250.00">>}

\* The changes update_quote is called with: <<customer, status, date>>; a
\* customer, a status, a customer with a date, and nothing at all
Changes ==
    {<<"Jane Doe", None, None>>, <<None, "contacted", None>>,
     <<"Jane Doe", None, "2020-01-01">>, <<None, None, None>>}

AddQuoteArgs(customer, status, premium, quote_id) ==
    [tool |-> "add_quote", customer |-> customer, email |-> "driver@example.com",
     phone |-> "555-0100", vehicle |-> "2023 Toyota Camry (Standard)",
     coverage |-> "Standard", status |-> status, premium |-> premium,
     quote_id |-> quote_id, zip_code |-> None]

UpdateQuoteArgs(quote_id, customer, status, date) ==
    [tool |-> "update_quote", quote_id |-> quote_id, customer |-> customer,
     email |-> None, phone |-> None, vehicle |-> None, coverage |-> None,
     status |-> status, date |-> date]

GetQuoteArgs(quote_id) == [tool |-> "get_quote", quote_id |-> quote_id]

ListQuotesArgs == [tool |-> "list_quotes", quote_id |-> NoId]

SendQuoteEmailArgs(quote_id, message) ==
    [tool |-> "send_quote_email", quote_id |-> quote_id,
     subject |-> "Your Insurance Quote", message |-> message]

\* send_quote_email: the body of the POST
email_data(args) ==
    (IF Truthy(args.message) THEN [message |-> args.message] ELSE <<>>)
    @@ [quote_id |-> args.quote_id, subject |-> args.subject]

\* The tool's name in its "Failed to ..." error value
FailedTo(tool) ==
    CASE tool = "add_quote" -> "Failed to add quote"
      [] tool = "update_quote" -> "Failed to update quote"
      [] tool = "send_quote_email" -> "Failed to send quote email"
      [] tool = "get_quote" -> "Failed to get quote"
      [] tool = "list_quotes" -> "Failed to list quotes"

\* The email action writing a fresh record with the status alone
EmailUpdateReplaces(records, id) ==
    [records EXCEPT ![IndexOf(records, id)] = [id |-> id, status |-> "contacted"]]

\* The email action on a loaded collection: the status of the record
EmailUpdate(records, id) ==
    [records EXCEPT ![IndexOf(records, id)] = MergeFields(@, [status |-> "contacted"])]

RepoInit ==
    /\ store = <<>>
    /\ lock = 0
    /\ pc = [c \in Callers |-> "idle"]
    /\ call = [c \in Callers |-> NoCall]
    /\ target = [c \in Callers |-> NoId]
    /\ payload = [c \in Callers |-> <<>>]
    /\ snap = [c \in Callers |-> <<>>]
    /\ result = [c \in Callers |-> ErrorResult(None)]
    /\ exists = TRUE

\* add_quote up to its POST: list the quotes, choose the id, build the record
AddQuote(c) ==
    /\ pc[c] = "idle"
    /\ \E applicant \in Applicants, quote_id \in GivenIds \cup ForeignIds \cup {NoId} :
        /\ call' = [call EXCEPT ![c] =
                AddQuoteArgs(applicant[1], "new", applicant[2], quote_id)]
        /\ LET quotes == store
           IN  target' = [target EXCEPT ![c] = AddQuoteId(quote_id, quotes)]
    /\ payload' = [payload EXCEPT ![c] = quote_data(call'[c])]
    /\ pc' = [pc EXCEPT ![c] = "posting"]
    /\ UNCHANGED <<store, lock, snap, result>>
    /\ UNCHANGED exists
    /\ UNCHANGED pricing_vars

\* The error of list_quotes noticed but the record posted all the same
AddQuoteListFailureIgnored(c) ==
    /\ pc[c] = "idle"
    /\ call' = [call EXCEPT ![c] = AddQuoteArgs("Jane Doe", "new", None, NoId)]
    /\ result' = [result EXCEPT ![c] = ErrorResult("Failed to list quotes")]
    /\ target' = [target EXCEPT ![c] = AddQuoteId(NoId, <<>>)]
    /\ payload' = [payload EXCEPT ![c] = quote_data(call'[c])]
    /\ pc' = [pc EXCEPT ![c] = "posting"]
    /\ UNCHANGED <<store, lock, snap>>
    /\ UNCHANGED exists
    /\ UNCHANGED pricing_vars

\* add_quote when list_quotes returned an error: the error is returned
AddQuoteListFails(c) ==
    /\ pc[c] = "idle"
    /\ call' = [call EXCEPT ![c] = AddQuoteArgs("Jane Doe", "new", None, NoId)]
    /\ result' = [result EXCEPT ![c] = ErrorResult("Failed to list quotes")]
    /\ pc' = [pc EXCEPT ![c] = "done"]
    /\ UNCHANGED <<store, lock, target, payload, snap>>
    /\ UNCHANGED exists
    /\ UNCHANGED pricing_vars

\* update_quote up to its POST
UpdateQuote(c) ==
    /\ pc[c] = "idle"
    /\ \E quote_id \in TargetIds, change \in Changes :
        /\ call' = [call EXCEPT ![c] =
                UpdateQuoteArgs(quote_id, change[1], change[2], change[3])]
        /\ target' = [target EXCEPT ![c] = quote_id]
    /\ payload' = [payload EXCEPT ![c] = update_data(call'[c])]
    /\ pc' = [pc EXCEPT ![c] = "posting"]
    /\ UNCHANGED <<store, lock, snap, result>>
    /\ UNCHANGED exists
    /\ UNCHANGED pricing_vars

\* The POST did not reach the repository: the tool returns an error value
PostFails(c) ==
    /\ pc[c] = "posting"
    /\ result' = [result EXCEPT ![c] = ErrorResult(FailedTo(call[c].tool))]
    /\ pc' = [pc EXCEPT ![c] = "done"]
    /\ UNCHANGED <<store, lock, call, target, payload, snap>>
    /\ UNCHANGED exists
    /\ UNCHANGED pricing_vars

\* The repository takes the lock and loads the collection
Load(c) ==
    /\ pc[c] = "posting"
    /\ LockFree(lock)
    /\ lock' = c
    /\ snap' = [snap EXCEPT ![c] = store]
    /\ pc' = [pc EXCEPT ![c] = "loaded"]
    /\ UNCHANGED <<store, call, target, payload, result>>
    /\ UNCHANGED exists
    /\ UNCHANGED pricing_vars

\* The repository writes the collection back and releases the lock; the
\* tool returns its success value
Persist(c) ==
    /\ pc[c] = "loaded"
    /\ call[c].tool \in {"add_quote", "update_quote"}
    /\ store' = upsert(snap[c], target[c], payload[c])
    /\ lock' = 0
    /\ result' = [result EXCEPT ![c] =
            SuccessResult(IF call[c].tool = "add_quote" THEN "created successfully"
                          ELSE "updated successfully", target[c])]
    /\ pc' = [pc EXCEPT ![c] = "done"]
    /\ UNCHANGED <<call, target, payload, snap>>
    /\ UNCHANGED exists
    /\ UNCHANGED pricing_vars

\* list_quotes: the collection, or an error value
ListQuotes(c) ==
    /\ pc[c] = "idle"
    /\ call' = [call EXCEPT ![c] = ListQuotesArgs]
    /\ \/ result' = [result EXCEPT ![c] = QuotesResult(store)]
       \/ result' = [result EXCEPT ![c] = ErrorResult(FailedTo("list_quotes"))]
    /\ pc' = [pc EXCEPT ![c] = "done"]
    /\ UNCHANGED <<store, lock, target, payload, snap>>
    /\ UNCHANGED exists
    /\ UNCHANGED pricing_vars

\* get_quote: the record, the 404 of an absent id, or another error value
GetQuote(c) ==
    /\ pc[c] = "idle"
    /\ \E quote_id \in TargetIds :
        /\ call' = [call EXCEPT ![c] = GetQuoteArgs(quote_id)]
        /\ \/ result' = [result EXCEPT ![c] =
                    IF HasId(store, quote_id)
                    THEN QuoteResult(quote_id, store[IndexOf(store, quote_id)])
                    ELSE NotFound(quote_id)]
           \/ result' = [result EXCEPT ![c] = ErrorResult(FailedTo("get_quote"))]
    /\ pc' = [pc EXCEPT ![c] = "done"]
    /\ UNCHANGED <<store, lock, target, payload, snap>>
    /\ UNCHANGED exists
    /\ UNCHANGED pricing_vars

\* send_quote_email up to its POST /api/quotes/{id}/email
SendQuoteEmail(c) ==
    /\ pc[c] = "idle"
    /\ \E quote_id \in TargetIds, message \in {None, "Here is your quote"} :
        /\ call' = [call EXCEPT ![c] = SendQuoteEmailArgs(quote_id, message)]
        /\ target' = [target EXCEPT ![c] = quote_id]
    /\ payload' = [payload EXCEPT ![c] = email_data(call'[c])]
    /\ pc' = [pc EXCEPT ![c] = "posting"]
    /\ UNCHANGED <<store, lock, snap, result>>
    /\ UNCHANGED exists
    /\ UNCHANGED pricing_vars

\* The repository completes the email action and releases the lock: the
\* status of a present record becomes "contacted"; an absent id is a 404
Email(c) ==
    /\ pc[c] = "loaded"
    /\ call[c].tool = "send_quote_email"
    /\ IF HasId(snap[c], target[c])
       THEN /\ store' = EmailUpdate(snap[c], target[c])
            /\ result' = [result EXCEPT ![c] =
                    SuccessResult("Quote email sent successfully", target[c])]
       ELSE /\ store' = store
            /\ result' = [result EXCEPT ![c] = NotFound(target[c])]
    /\ lock' = 0
    /\ pc' = [pc EXCEPT ![c] = "done"]
    /\ UNCHANGED <<call, target, payload, snap>>
    /\ UNCHANGED exists
    /\ UNCHANGED pricing_vars

RepoNext ==
    \E c \in Callers :
        \/ AddQuote(c)
        \/ AddQuoteListFails(c)
        \/ UpdateQuote(c)
        \/ ListQuotes(c)
        \/ GetQuote(c)
        \/ SendQuoteEmail(c)
        \/ PostFails(c)
        \/ Load(c)
        \/ Persist(c)
        \/ Email(c)

-----------------------------------------------------------------------------
(* Pricing specification: a request arrives and one entry point prices it *)

PricingInit ==
    /\ now_year = ClockYear
    /\ now = ClockInstant
    /\ req = NoRequest
    /\ path = "none"
    /\ out = NoOutput

Init == PricingInit /\ RepoInit

\* A caller submits a request
Submit ==
    /\ req = NoRequest
    /\ \/ \E cat \in VehicleCategory, va \in VehicleAges, cov \in CoverageLevel,
             mar \in MaritalStatus, age \in Ages, home \in HomeOwnership,
             car \in CarOwnership, val \in VehicleValue,
             drv \in DrivingFrequency, zip \in Zips :
             req' = QuoteRequestOf(cat, now_year - va, cov, mar, age, home,
                                   car, val, drv, zip)
       \/ req' \in InvalidRequests(now_year)
    /\ UNCHANGED <<now_year, now, path, out>>
    /\ UNCHANGED repo_vars

\* The backend validates the request against the QuoteRequest schema and
\* prices it
BackendCalculate ==
    /\ req # NoRequest /\ path = "none"
    /\ out' = calculate_quote_endpoint(req, now_year)
    /\ path' = "backend"
    /\ UNCHANGED <<now_year, now, req>>
    /\ UNCHANGED repo_vars

\* The MCP tool validates and prices a request
McpCalculate ==
    /\ req # NoRequest /\ path = "none"
    /\ out' = mcp_calculate_quote(req, now_year)
    /\ path' = "mcp"
    /\ UNCHANGED <<now_year, now, req>>
    /\ UNCHANGED repo_vars

\* The quote_master tool checks the request and has the backend price it
ProxyCalculate ==
    /\ req # NoRequest /\ path = "none"
    /\ out' = proxy_calculate_quote(req, now_year)
    /\ path' = "proxy"
    /\ UNCHANGED <<now_year, now, req>>
    /\ UNCHANGED repo_vars

PricingNext == Submit \/ BackendCalculate \/ McpCalculate \/ ProxyCalculate

Spec == Init /\ [][PricingNext]_vars

\* The priced quote's fields, whichever entry point produced it
Priced == out.kind = "quote"
QuoteFinalPremium ==
    IF path = "mcp" THEN out.pricing_summary.final_premium ELSE out.final_premium
QuoteSubtotal ==
    IF path = "mcp" THEN out.pricing_summary.subtotal ELSE out.subtotal
QuoteTotalDiscounts ==
    IF path = "mcp" THEN out.pricing_summary.total_discounts ELSE out.total_discounts
QuoteVehicleFactor ==
    IF path = "mcp" THEN out.pricing_factors.vehicle_factor ELSE out.vehicle_factor

-----------------------------------------------------------------------------
(* Copies specification: both copies of the pipeline price one request *)

\* calculate_insurance_quote of the backend prices the request
BackendCopy ==
    /\ req # NoRequest /\ "backend" \notin DOMAIN out
    /\ out' = [backend |-> calculate_insurance_quote(req, now_year)]
                 @@ [out EXCEPT !.kind = "copies"]
    /\ path' = "backend"
    /\ UNCHANGED <<now_year, now, req>>
    /\ UNCHANGED repo_vars

\* calculate_quote of the MCP server prices the request
McpCopy ==
    /\ req # NoRequest /\ "mcp" \notin DOMAIN out
    /\ out' = [mcp |-> mcp_calculate_quote(req, now_year)]
                 @@ [out EXCEPT !.kind = "copies"]
    /\ path' = "mcp"
    /\ UNCHANGED <<now_year, now, req>>
    /\ UNCHANGED repo_vars

CopiesNext == Submit \/ BackendCopy \/ McpCopy

CopiesSpec == Init /\ [][CopiesNext]_vars

-----------------------------------------------------------------------------
(* Coverage explanation: mcp/auto_quote_mcp.py get_coverage_explanation *)

\* The limits of one coverage by level
Limits(basic, standard, premium) ==
    [Basic |-> basic, Standard |-> standard, Premium |-> premium]

\* all_coverage_info: the limits of each coverage (the description texts
\* are not modelled)
all_coverage_info ==
    ("Bodily Injury Liability" :>
        Limits("$15,000 per person/$30,000 per accident",
               "$50,000 per person/$100,000 per accident",
               "$100,000 per person/$300,000 per accident"))
    @@ ("Property Damage Liability" :>
        Limits("$5,000 per accident", "$25,000 per accident", "$50,000 per accident"))
    @@ ("Uninsured/Underinsured Motorist" :>
        Limits("$15,000 per person/$30,000 per accident",
               "$50,000 per person/$100,000 per accident",
               "$100,000 per person/$300,000 per accident"))
    @@ ("Rental Car Coverage" :>
        Limits("Not included", "$25 per day, up to $750 maximum",
               "$30 per day, up to $900 maximum"))
    @@ ("Comprehensive" :>
        Limits("Not included", "$500 deductible", "$250 deductible"))
    @@ ("Collision" :>
        Limits("Not included", "$500 deductible", "$250 deductible"))

\* An explanation that lists the coverages a level does not include
CoverageExplanationUnfiltered(coverage_level) ==
    IF ~Truthy(coverage_level)
    THEN [kind |-> "all", coverages |-> all_coverage_info]
    ELSE IF coverage_level \notin CoverageLevel
    THEN ErrorValue("Invalid coverage level")
    ELSE [kind |-> "explanation", coverage_level |-> coverage_level,
          coverages |-> [name \in DOMAIN all_coverage_info |->
                            DictGet(all_coverage_info[name], coverage_level, "Not included")]]

\* get_coverage_explanation: for a level, the limit of every coverage but
\* those a Basic policy does not include; without a level, everything
get_coverage_explanation(coverage_level) ==
    IF ~Truthy(coverage_level)
    THEN [kind |-> "all", coverages |-> all_coverage_info]
    ELSE IF coverage_level \notin CoverageLevel
    THEN ErrorValue("Invalid coverage level")
    ELSE LET limit(name) == DictGet(all_coverage_info[name], coverage_level, "Not included")
             listed == {name \in DOMAIN all_coverage_info :
                           ~(limit(name) = "Not included" /\ coverage_level = "Basic")}
         IN  [kind |-> "explanation", coverage_level |-> coverage_level,
              coverages |-> [name \in listed |-> limit(name)]]

\* Nothing explained and nothing priced yet
ExplanationInit ==
    /\ now_year = ClockYear
    /\ now = ClockInstant
    /\ req = NoRequest
    /\ path = "none"
    /\ out = [kind |-> "explained", explanation |-> NoOutput, quote |-> NoOutput]
    /\ RepoInit

\* The MCP server explains a coverage level, an unknown level, or all levels
Explain ==
    /\ \E coverage_level \in CoverageLevel \cup {"Gold", None} :
          out' = [out EXCEPT !.explanation = get_coverage_explanation(coverage_level)]
    /\ path' = "explanation"
    /\ UNCHANGED <<now_year, now, req>>
    /\ UNCHANGED repo_vars

\* The MCP server prices the sample request at a coverage level, a vehicle
\* value and a vehicle category
ExplainedPrice ==
    /\ \E coverage_level \in CoverageLevel, vehicle_value \in VehicleValue, vehicle_category \in VehicleCategory :
          /\ req' = [sample_quote_request(now_year) EXCEPT
                        !.coverage_level = coverage_level,
                        !.vehicle_value = vehicle_value,
                        !.vehicle_category = vehicle_category]
          /\ out' = [out EXCEPT !.quote = mcp_calculate_quote(req', now_year)]
    /\ path' = "mcp"
    /\ UNCHANGED <<now_year, now>>
    /\ UNCHANGED repo_vars

ExplanationNext == Explain \/ ExplainedPrice

ExplanationSpec == ExplanationInit /\ [][ExplanationNext]_vars

-----------------------------------------------------------------------------
(* Age-factor specification: the factor of every valid driver age *)

AgeCall ==
    /\ req = NoRequest
    /\ \E age \in MinAge..MaxAge :
        /\ req' = [kind |-> "age", age |-> age]
        /\ out' = [kind |-> "age_factor", age_factor |-> _calculate_age_factor(age)]
    /\ path' = "backend"
    /\ UNCHANGED <<now_year, now>>
    /\ UNCHANGED repo_vars

McpAgeCall ==
    /\ req = NoRequest
    /\ \E age \in MinAge..MaxAge :
        /\ req' = [kind |-> "age", age |-> age]
        /\ out' = [kind |-> "age_factor", age_factor |-> mcp_calculate_age_factor(age)]
    /\ path' = "mcp"
    /\ UNCHANGED <<now_year, now>>
    /\ UNCHANGED repo_vars

AgeNext == AgeCall \/ McpAgeCall

AgeSpec == Init /\ [][AgeNext]_vars

-----------------------------------------------------------------------------
(* Discount specification: the discount set of every valid profile.        *)
(* total_discounts is line 69 of calculate_insurance_quote.                *)

DiscountCall ==
    /\ req = NoRequest
    /\ \E mar \in MaritalStatus, age \in MinAge..MaxAge, home \in HomeOwnership,
          car \in CarOwnership, cov \in CoverageLevel,
          year \in (now_year - MaxVehicleAge)..(now_year + MaxYearAhead) :
        LET discounts == _calculate_discounts(mar, age, home, car, year, cov, now_year)
        IN  /\ req' = [kind |-> "profile", marital_status |-> mar, age |-> age,
                       home_ownership |-> home, car_ownership |-> car,
                       vehicle_year |-> year, coverage_level |-> cov]
            /\ out' = [kind |-> "discounts", discounts |-> discounts,
                       total_discounts |-> SumField(discounts, "amount")]
    /\ path' = "backend"
    /\ UNCHANGED <<now_year, now>>
    /\ UNCHANGED repo_vars

McpDiscountCall ==
    /\ req = NoRequest
    /\ \E mar \in MaritalStatus, age \in MinAge..MaxAge, home \in HomeOwnership,
          car \in CarOwnership, cov \in CoverageLevel,
          year \in (now_year - MaxVehicleAge)..(now_year + MaxYearAhead) :
        LET discounts == mcp_calculate_discounts(mar, age, home, car, year, cov, now_year)
        IN  /\ req' = [kind |-> "profile", marital_status |-> mar, age |-> age,
                       home_ownership |-> home, car_ownership |-> car,
                       vehicle_year |-> year, coverage_level |-> cov]
            /\ out' = [kind |-> "discounts", discounts |-> discounts,
                       total_discounts |-> SumField(discounts, "amount")]
    /\ path' = "mcp"
    /\ UNCHANGED <<now_year, now>>
    /\ UNCHANGED repo_vars

DiscountNext == DiscountCall \/ McpDiscountCall

DiscountSpec == Init /\ [][DiscountNext]_vars

-----------------------------------------------------------------------------
(* Engine specification: calculate_insurance_quote called directly, with   *)
(* any value in its string parameters                                      *)

EngineCall ==
    /\ req = NoRequest
    /\ \E cat \in VehicleCategory \cup {"Sports"},
          cov \in CoverageLevel \cup {"Gold"},
          mar \in MaritalStatus \cup {"Separated"},
          home \in HomeOwnership \cup {"Mortgage"},
          car \in CarOwnership \cup {"Rent"},
          val \in VehicleValue \cup {"Unknown"},
          drv \in DrivingFrequency \cup {"Daily"} :
        /\ req' = QuoteRequestOf(cat, now_year - 3, cov, mar, 35, home, car,
                                 val, drv, "90210")
        /\ out' = calculate_insurance_quote(req', now_year)
    /\ path' = "engine"
    /\ UNCHANGED <<now_year, now>>
    /\ UNCHANGED repo_vars

EngineSpec == Init /\ [][EngineCall]_vars

-----------------------------------------------------------------------------
(* Vehicle-factor specification: the factor of every valid vehicle *)

VehicleCall ==
    /\ req = NoRequest
    /\ \E cat \in VehicleCategory, val \in VehicleValue, car \in CarOwnership,
          year \in (now_year - MaxVehicleAge)..(now_year + MaxYearAhead) :
        /\ req' = [kind |-> "vehicle", vehicle_category |-> cat,
                   vehicle_year |-> year, vehicle_value |-> val,
                   car_ownership |-> car]
        /\ out' = [kind |-> "vehicle_factor", vehicle_factor |->
                      _calculate_vehicle_factor(cat, year, val, car, now_year)]
    /\ path' = "backend"
    /\ UNCHANGED <<now_year, now>>
    /\ UNCHANGED repo_vars

McpVehicleCall ==
    /\ req = NoRequest
    /\ \E cat \in VehicleCategory, val \in VehicleValue, car \in CarOwnership,
          year \in (now_year - MaxVehicleAge)..(now_year + MaxYearAhead) :
        /\ req' = [kind |-> "vehicle", vehicle_category |-> cat,
                   vehicle_year |-> year, vehicle_value |-> val,
                   car_ownership |-> car]
        /\ out' = [kind |-> "vehicle_factor", vehicle_factor |->
                      mcp_calculate_vehicle_factor(cat, year, val, car, now_year)]
    /\ path' = "mcp"
    /\ UNCHANGED <<now_year, now>>
    /\ UNCHANGED repo_vars

VehicleNext == VehicleCall \/ McpVehicleCall

VehicleSpec == Init /\ [][VehicleNext]_vars

-----------------------------------------------------------------------------
(* Location-factor specification: a ZIP code of every digest is priced,    *)
(* and then priced once more by either copy of the function                *)

ZipCodes == {ZipTable[i] : i \in 1..Len(ZipTable)}

LocationCall ==
    /\ req = NoRequest
    /\ \E zip \in ZipCodes :
        /\ req' = [kind |-> "zip", zip_code |-> zip]
        /\ out' = [kind |-> "location_factor", calls |-> 1,
                   location_factor |-> _calculate_location_factor(zip),
                   again |-> 0, again_by |-> "none"]
    /\ path' = "backend"
    /\ UNCHANGED <<now_year, now>>
    /\ UNCHANGED repo_vars

McpLocationCall ==
    /\ req = NoRequest
    /\ \E zip \in ZipCodes :
        /\ req' = [kind |-> "zip", zip_code |-> zip]
        /\ out' = [kind |-> "location_factor", calls |-> 1,
                   location_factor |-> mcp_calculate_location_factor(zip),
                   again |-> 0, again_by |-> "none"]
    /\ path' = "mcp"
    /\ UNCHANGED <<now_year, now>>
    /\ UNCHANGED repo_vars

\* The same ZIP code, a second call
LocationCallAgain ==
    /\ out.kind = "location_factor" /\ out.calls = 1
    /\ out' = [out EXCEPT !.calls = 2,
                          !.again = _calculate_location_factor(req.zip_code),
                          !.again_by = "backend"]
    /\ UNCHANGED <<now_year, now, req, path>>
    /\ UNCHANGED repo_vars

McpLocationCallAgain ==
    /\ out.kind = "location_factor" /\ out.calls = 1
    /\ out' = [out EXCEPT !.calls = 2,
                          !.again = mcp_calculate_location_factor(req.zip_code),
                          !.again_by = "mcp"]
    /\ UNCHANGED <<now_year, now, req, path>>
    /\ UNCHANGED repo_vars

LocationNext ==
    LocationCall \/ McpLocationCall \/ LocationCallAgain \/ McpLocationCallAgain

LocationSpec == Init /\ [][LocationNext]_vars

-----------------------------------------------------------------------------
(* Quote reference: the quote id and the expiration date of both paths     *)
(* (calculator.py 74-77, auto_quote_mcp.py 236-238)                        *)

SecondsPerDay == 24 * 3600

\* Whether a year has a 29 February
is_leap(year) == year % 4 = 0 /\ (year % 100 # 0 \/ year % 400 = 0)

\* The number of days of a month
days_in_month(year, month) ==
    IF month = 2 THEN (IF is_leap(year) THEN 29 ELSE 28)
    ELSE IF month \in {4, 6, 9, 11} THEN 30 ELSE 31

\* The number of days of a year before the first day of a month
days_before_month(year, month) ==
    LET before == <<0, 31, 59, 90, 120, 151, 181, 212, 243, 273, 304, 334>>
    IN  before[month] + (IF month > 2 /\ is_leap(year) THEN 1 ELSE 0)

\* The number of days before 1 January of a year
days_before_year(year) ==
    LET y == year - 1
    IN  y * 365 + y \div 4 - y \div 100 + y \div 400

\* date.toordinal(): 1 January of year 1 is day 1
ymd2ord(year, month, day) ==
    days_before_year(year) + days_before_month(year, month) + day

\* date.fromordinal(): the date of a day number, by 400-, 100-, 4- and
\* 1-year cycles
ord2ymd(ordinal) ==
    LET n0 == ordinal - 1
        n400 == n0 \div 146097
        r400 == n0 % 146097
        n100 == r400 \div 36524
        r100 == r400 % 36524
        n4 == r100 \div 1461
        r4 == r100 % 1461
        n1 == r4 \div 365
        n == r4 % 365
        year == n400 * 400 + 1 + n100 * 100 + n4 * 4 + n1
        leapyear == n1 = 3 /\ (n4 # 24 \/ n100 = 3)
        guess == (n + 50) \div 32
        before(m) == days_before_month(2001, m) + (IF m > 2 /\ leapyear THEN 1 ELSE 0)
        month == IF before(guess) > n THEN guess - 1 ELSE guess
    IN  IF n1 = 4 \/ n100 = 4
        THEN [year |-> year - 1, month |-> 12, day |-> 31]
        ELSE [year |-> year, month |-> month, day |-> n - before(month) + 1]

\* datetime.now(): the date and the second of its day
datetime_now(year, instant) ==
    [year |-> year, month |-> instant.month, day |-> instant.day,
     second |-> instant.second]

\* A clock whose replace() lands one second later, on the next midnight
ReplaceRoundsUp(dt, hour, minute, second) ==
    [dt EXCEPT !.second = hour * 3600 + minute * 60 + second + 1]

\* datetime.replace(hour=, minute=, second=): same date, that time of day
replace(dt, hour, minute, second) ==
    [dt EXCEPT !.second = hour * 3600 + minute * 60 + second]

\* datetime + timedelta(days=): days and seconds are carried separately
plus_days(dt, days) ==
    LET ordinal == ymd2ord(dt.year, dt.month, dt.day) + days + dt.second \div SecondsPerDay
        date == ord2ymd(ordinal)
    IN  [year |-> date.year, month |-> date.month, day |-> date.day,
         second |-> dt.second % SecondsPerDay]

\* str(n): the decimal digits of a natural number
RECURSIVE Digits(_)
Digits(n) == IF n < 10 THEN <<n>> ELSE Append(Digits(n \div 10), n % 10)

\* %Y, %m, %d: the decimal digits, zero-padded to a width
Padded(n, width) ==
    LET digits == Digits(n)
    IN  IF Len(digits) >= width THEN digits
        ELSE [i \in 1..(width - Len(digits)) |-> 0] \o digits

\* strftime('%Y%m%d')
strftime_Ymd(dt) == Padded(dt.year, 4) \o Padded(dt.month, 2) \o Padded(dt.day, 2)

\* strftime("%Y-%m-%d"): the three fields between the hyphens
strftime_Y_m_d(dt) == <<Padded(dt.year, 4), Padded(dt.month, 2), Padded(dt.day, 2)>>

\* random.randint(a, b): any integer of a..b, both ends included
randint(a, b) == a..b

\* A generator that may also return numbers below 1000
SuffixesFromHundred == randint(100, 9999)

\* The random suffixes of a quote id
Suffixes == randint(1000, 9999)

\* f"QM-{datetime.now().strftime('%Y%m%d')}-{random.randint(1000, 9999)}"
quote_id(dt, suffix) ==
    [prefix |-> "QM-", date |-> strftime_Ymd(dt), hyphen |-> "-",
     number |-> Digits(suffix)]

\* Backend: (datetime.now().replace(hour=23, minute=59, second=59)
\*           + timedelta(days=30)).strftime("%Y-%m-%d")
backend_expiration_date(dt) == strftime_Y_m_d(plus_days(replace(dt, 23, 59, 59), 30))

\* MCP server: (datetime.now() + timedelta(days=30)).strftime("%Y-%m-%d")
mcp_expiration_date(dt) == strftime_Y_m_d(plus_days(dt, 30))

\* The days of the year's calendar
Dates(year) ==
    {d \in [month : 1..12, day : 1..31] : d.day <= days_in_month(year, d.month)}

\* The seconds of the day the clock is read at: midnight, the second after,
\* noon, and the last two seconds
Seconds == {0, 1, SecondsPerDay \div 2, SecondsPerDay - 2, SecondsPerDay - 1}

NoDate == <<>>

\* Any instant of the year
InstantInit ==
    /\ now_year = ClockYear
    /\ \E d \in Dates(ClockYear), s \in Seconds :
          now = [month |-> d.month, day |-> d.day, second |-> s]
    /\ req = NoRequest
    /\ path = "none"
    /\ out = [kind |-> "expiration", backend |-> NoDate, mcp |-> NoDate]
    /\ RepoInit

\* The backend engine computes the expiration date
BackendExpiration ==
    /\ out.backend = NoDate
    /\ out' = [out EXCEPT !.backend = backend_expiration_date(datetime_now(now_year, now))]
    /\ path' = "backend"
    /\ UNCHANGED <<now_year, now, req>>
    /\ UNCHANGED repo_vars

\* The MCP server computes the expiration date
McpExpiration ==
    /\ out.mcp = NoDate
    /\ out' = [out EXCEPT !.mcp = mcp_expiration_date(datetime_now(now_year, now))]
    /\ path' = "mcp"
    /\ UNCHANGED <<now_year, now, req>>
    /\ UNCHANGED repo_vars

ExpirationNext == BackendExpiration \/ McpExpiration

ExpirationSpec == InstantInit /\ [][ExpirationNext]_vars

\* The first and the last day of every month, at midnight
MonthEndsInit ==
    /\ now_year = ClockYear
    /\ \E d \in Dates(ClockYear) :
          /\ d.day \in {1, days_in_month(ClockYear, d.month)}
          /\ now = [month |-> d.month, day |-> d.day, second |-> 0]
    /\ req = NoRequest
    /\ path = "none"
    /\ out = NoOutput
    /\ RepoInit

\* The backend engine mints a quote id
BackendQuoteId ==
    /\ path = "none"
    /\ \E suffix \in Suffixes :
          out' = [kind |-> "quote_id",
                  quote_id |-> quote_id(datetime_now(now_year, now), suffix)]
    /\ path' = "backend"
    /\ UNCHANGED <<now_year, now, req>>
    /\ UNCHANGED repo_vars

\* The MCP server mints a quote id
McpQuoteId ==
    /\ path = "none"
    /\ \E suffix \in Suffixes :
          out' = [kind |-> "quote_id",
                  quote_id |-> quote_id(datetime_now(now_year, now), suffix)]
    /\ path' = "mcp"
    /\ UNCHANGED <<now_year, now, req>>
    /\ UNCHANGED repo_vars

QuoteIdNext == BackendQuoteId \/ McpQuoteId

QuoteIdSpec == MonthEndsInit /\ [][QuoteIdNext]_vars

-----------------------------------------------------------------------------
(* Repository specification: NumCallers tool calls run concurrently *)

RepoSpec == Init /\ [][RepoNext]_vars

-----------------------------------------------------------------------------
(* calculate_and_save_quote: backend/main.py 411-505 *)

\* f"{vehicle_year} {vehicle_category} Vehicle"
vehicle_description(r) ==
    ToString(r.vehicle_year) \o " " \o r.vehicle_category \o " Vehicle"

\* f"${cents / 100:.2f}": a money amount in cents, printed with two decimals
FormatDollars(cents) ==
    "$" \o ToString(cents \div 100) \o "."
        \o (IF cents % 100 < 10 THEN "0" ELSE "") \o ToString(cents % 100)

\* f"${quote_result.get('final_premium', 0):.2f}"
premium_formatted(quote_result) == FormatDollars(quote_result.final_premium)

CalculateAndSaveArgs(r, customer, status) ==
    [tool |-> "calculate_and_save_quote", quote_id |-> NoId, request |-> r,
     customer |-> customer, email |-> "driver@example.com",
     phone |-> "555-0100", status |-> status]

\* The subtotal saved as the premium, in place of the final premium
SaveArgsSubtotal(args, quote_result) ==
    [tool |-> "add_quote", customer |-> args.customer, email |-> args.email,
     phone |-> args.phone, vehicle |-> vehicle_description(args.request),
     coverage |-> args.request.coverage_level, status |-> args.status,
     premium |-> FormatDollars(quote_result.subtotal), quote_id |-> NoId,
     zip_code |-> args.request.zip_code]

\* The arguments calculate_and_save_quote calls add_quote with
save_args(args, quote_result) ==
    [tool |-> "add_quote", customer |-> args.customer, email |-> args.email,
     phone |-> args.phone, vehicle |-> vehicle_description(args.request),
     coverage |-> args.request.coverage_level, status |-> args.status,
     premium |-> premium_formatted(quote_result), quote_id |-> NoId,
     zip_code |-> args.request.zip_code]

\* {"error": save_result["error"], "quote_calculation": quote_result}
SaveFailed(message, quote_result) ==
    [success |-> FALSE, error |-> message, quote_id |-> NoId,
     quote_calculation |-> quote_result]

\* The combined result of a calculation and a save
SaveSucceeded(id, quote_result) ==
    [success |-> TRUE, message |-> "Quote calculated and saved successfully",
     quote_id |-> id, quote_details |-> quote_result]

\* The requests the tool is called with: the sample request, the same at
\* Premium coverage, one the tool itself rejects and one the endpoint rejects
SaveRequests(current_year) ==
    LET s == sample_quote_request(current_year)
    IN  {s, [s EXCEPT !.coverage_level = "Premium"], [s EXCEPT !.age = 15],
         [s EXCEPT !.coverage_level = "Gold"]}

\* What calculate_quote returns to calculate_and_save_quote: the tool's
\* result, or its error value when the request did not get through
QuoteResults(r, current_year) ==
    {proxy_calculate_quote(r, current_year), ErrorValue("Failed to calculate quote")}

\* calculate_and_save_quote up to add_quote's POST: calculate, return the
\* error of a failed calculation; otherwise list the quotes (returning the
\* error of a failed list with the quote), choose the id, build the record
CalculateAndSave(c) ==
    /\ pc[c] = "idle"
    /\ \E r \in SaveRequests(now_year), customer \in {"Jane Doe", "John Smith"} :
        /\ call' = [call EXCEPT ![c] = CalculateAndSaveArgs(r, customer, "new")]
        /\ \E quote_result \in QuoteResults(r, now_year) :
              IF quote_result.kind = "error"
              THEN /\ result' = [result EXCEPT ![c] = ErrorResult(quote_result.error)]
                   /\ pc' = [pc EXCEPT ![c] = "done"]
                   /\ UNCHANGED <<target, payload>>
              ELSE \/ /\ result' = [result EXCEPT ![c] =
                             SaveFailed(FailedTo("list_quotes"), quote_result)]
                      /\ pc' = [pc EXCEPT ![c] = "done"]
                      /\ UNCHANGED <<target, payload>>
                   \/ /\ target' = [target EXCEPT ![c] = AddQuoteId(NoId, store)]
                      /\ payload' = [payload EXCEPT ![c] =
                             quote_data(save_args(call'[c], quote_result))]
                      /\ pc' = [pc EXCEPT ![c] = "posting"]
                      /\ UNCHANGED result
    /\ UNCHANGED <<store, lock, snap, exists>>
    /\ UNCHANGED pricing_vars

\* The quote calculate_and_save_quote holds while add_quote posts
HeldQuote(c) == proxy_calculate_quote(call[c].request, now_year)

\* add_quote's POST did not reach the repository: the error is returned
\* with the calculated quote
SavePostFails(c) ==
    /\ pc[c] = "posting"
    /\ result' = [result EXCEPT ![c] = SaveFailed(FailedTo("add_quote"), HeldQuote(c))]
    /\ pc' = [pc EXCEPT ![c] = "done"]
    /\ UNCHANGED <<store, lock, call, target, payload, snap, exists>>
    /\ UNCHANGED pricing_vars

\* The repository writes the collection back and releases the lock; the
\* tool returns the combined result
SavePersist(c) ==
    /\ pc[c] = "loaded"
    /\ store' = upsert(snap[c], target[c], payload[c])
    /\ lock' = 0
    /\ result' = [result EXCEPT ![c] = SaveSucceeded(target[c], HeldQuote(c))]
    /\ pc' = [pc EXCEPT ![c] = "done"]
    /\ UNCHANGED <<call, target, payload, snap, exists>>
    /\ UNCHANGED pricing_vars

SaveNext ==
    \E c \in Callers :
        \/ CalculateAndSave(c)
        \/ SavePostFails(c)
        \/ Load(c)
        \/ SavePersist(c)

SaveSpec == Init /\ [][SaveNext]_vars

-----------------------------------------------------------------------------
(* Bootstrap of the durable store: spec section 4.3 *)

\* The fixed example records a repository seeds a missing store with
SeedRecords ==
    <<[id |-> 1000 + 1, customer |-> "Jane Doe", status |-> "pending"],
      [id |-> 1000 + 2, customer |-> "John Smith", status |-> "contacted"]>>

\* The operations a repository process serves: a list, or an upsert of a
\* customer under one of the ids callers name
SeedOperations ==
    {ListQuotesArgs} \cup {UpdateQuoteArgs(id, "Jane Doe", None, None) : id \in TargetIds}

\* No durable store yet, and no process at work
SeedInit ==
    /\ store = <<>>
    /\ exists = FALSE
    /\ lock = 0
    /\ pc = [c \in Callers |-> "idle"]
    /\ call = [c \in Callers |-> NoCall]
    /\ target = [c \in Callers |-> NoId]
    /\ payload = [c \in Callers |-> <<>>]
    /\ snap = [c \in Callers |-> <<>>]
    /\ result = [c \in Callers |-> ErrorResult(None)]

\* Process c starts an operation and takes the lock on the store
SeedBegin(c) ==
    /\ pc[c] = "idle"
    /\ LockFree(lock)
    /\ lock' = c
    /\ \E args \in SeedOperations :
          /\ call' = [call EXCEPT ![c] = args]
          /\ target' = [target EXCEPT ![c] = args.quote_id]
          /\ payload' = [payload EXCEPT ![c] =
                 IF args.tool = "update_quote" THEN update_data(args) ELSE <<>>]
    /\ pc' = [pc EXCEPT ![c] = "locked"]
    /\ UNCHANGED <<store, exists, snap, result>>
    /\ UNCHANGED pricing_vars

\* Start of the operation: read the store, or prepare the seed when there
\* is no store
SeedLoad(c) ==
    /\ pc[c] = "locked"
    /\ IF exists
       THEN /\ snap' = [snap EXCEPT ![c] = store]
            /\ pc' = [pc EXCEPT ![c] = "loaded"]
       ELSE /\ snap' = [snap EXCEPT ![c] = SeedRecords]
            /\ pc' = [pc EXCEPT ![c] = "seeding"]
    /\ UNCHANGED <<store, exists, lock, call, target, payload, result>>
    /\ UNCHANGED pricing_vars

\* The seed is written to the store, which now exists
SeedPersist(c) ==
    /\ pc[c] = "seeding"
    /\ store' = snap[c]
    /\ exists' = TRUE
    /\ pc' = [pc EXCEPT ![c] = "loaded"]
    /\ UNCHANGED <<lock, call, target, payload, snap, result>>
    /\ UNCHANGED pricing_vars

\* End of the operation: an upsert writes the collection back, a list
\* returns it; the lock is released
SeedFinish(c) ==
    /\ pc[c] = "loaded"
    /\ IF call[c].tool = "update_quote"
       THEN /\ store' = upsert(snap[c], target[c], payload[c])
            /\ result' = [result EXCEPT ![c] =
                    SuccessResult("updated successfully", target[c])]
       ELSE /\ store' = store
            /\ result' = [result EXCEPT ![c] = QuotesResult(snap[c])]
    /\ lock' = IF lock = c THEN 0 ELSE lock
    /\ pc' = [pc EXCEPT ![c] = "done"]
    /\ UNCHANGED <<exists, call, target, payload, snap>>
    /\ UNCHANGED pricing_vars

\* Process c stops at any point and is started again: what it held in
\* memory and its lock are gone, the durable store is as it was
Restart(c) ==
    /\ pc[c] # "idle"
    /\ pc' = [pc EXCEPT ![c] = "idle"]
    /\ call' = [call EXCEPT ![c] = NoCall]
    /\ target' = [target EXCEPT ![c] = NoId]
    /\ payload' = [payload EXCEPT ![c] = <<>>]
    /\ snap' = [snap EXCEPT ![c] = <<>>]
    /\ result' = [result EXCEPT ![c] = ErrorResult(None)]
    /\ lock' = IF lock = c THEN 0 ELSE lock
    /\ UNCHANGED <<store, exists>>
    /\ UNCHANGED pricing_vars

SeedNext ==
    \E c \in Callers :
        \/ SeedBegin(c)
        \/ SeedLoad(c)
        \/ SeedPersist(c)
        \/ SeedFinish(c)
        \/ Restart(c)

\* The state before any process has run against a missing store
MissingStoreInit == PricingInit /\ SeedInit

SeedSpec == MissingStoreInit /\ [][SeedNext]_vars

-----------------------------------------------------------------------------
(* Properties of the pricing engine *)

\* C1: for every valid request the final premium that is returned is at
\* least $50 (5000 cents), and so never negative, on both entry points.
C1_FinalPremiumFloor ==
    (Priced /\ QuoteRequestValid(req, now_year))
        => (QuoteFinalPremium >= 5000 /\ QuoteFinalPremium >= 0)

\* C1 witness: a valid request whose subtotal less discounts is below $50
\* (here even negative) was priced, and the floor was returned.
C1_Witness ==
    /\ Priced /\ QuoteRequestValid(req, now_year)
    /\ QuoteSubtotal - QuoteTotalDiscounts < 0
    /\ QuoteFinalPremium = 5000

\* C4 as stated: 3 coverage lines for Basic, 5 for Standard and Premium.
C4_FiveLines ==
    Priced => Len(out.coverages) =
                (IF req.coverage_level = "Basic" THEN 3 ELSE 5)

\* C4 amended: 3 coverage lines for Basic, 6 for Standard and Premium
\* (three liability lines, Rental, Comprehensive, Collision), for every
\* vehicle value.
C4_SixLines ==
    Priced => Len(out.coverages) =
                (IF req.coverage_level = "Basic" THEN 3 ELSE 6)

\* C4 witness: a Standard request on the most expensive vehicle value was
\* priced with six lines.
C4_Witness ==
    /\ Priced /\ req.coverage_level = "Standard"
    /\ req.vehicle_value = "Over $40,000"
    /\ Len(out.coverages) = 6

DeductibleAmounts == {"$250 deductible", "$500 deductible"}

\* C5: every Comprehensive and Collision line shows "$250 deductible" at
\* Premium and "$500 deductible" at Standard (and both lines are there), and
\* at Basic no line shows a deductible.
C5_Deductibles ==
    Priced =>
        LET lines == out.coverages
            level == req.coverage_level
            named(n) == {i \in DOMAIN lines : lines[i].name = n}
        IN  /\ \A i \in named("Comprehensive") \cup named("Collision") :
                 /\ level = "Premium" => lines[i].amount = "$250 deductible"
                 /\ level = "Standard" => lines[i].amount = "$500 deductible"
            /\ level \in {"Standard", "Premium"} =>
                 Cardinality(named("Comprehensive")) = 1
                 /\ Cardinality(named("Collision")) = 1
            /\ level = "Basic" =>
                 \A i \in DOMAIN lines : lines[i].amount \notin DeductibleAmounts

\* C5 witness: a Premium quote whose Collision line shows the $250 deductible.
C5_Witness ==
    /\ Priced /\ req.coverage_level = "Premium"
    /\ \E i \in DOMAIN out.coverages :
          /\ out.coverages[i].name = "Collision"
          /\ out.coverages[i].amount = "$250 deductible"

\* C10 as stated: the sample request yields 5 coverage lines, exactly the
\* discounts Homeowner, Married, Experienced Driver and New Vehicle
\* (total 225), vehicle_factor 1.11 and final = max(50, subtotal - 225).
C10_SampleFiveLines ==
    (Priced /\ req = sample_quote_request(now_year)) =>
        /\ Len(out.coverages) = 5
        /\ [i \in DOMAIN out.discounts |-> out.discounts[i].name] =
             <<"Homeowner Discount", "Married Driver Discount",
               "Experienced Driver Discount", "New Vehicle Discount">>
        /\ QuoteTotalDiscounts = 22500
        /\ QuoteVehicleFactor = 111
        /\ QuoteFinalPremium = Max(5000, QuoteSubtotal - 22500)

\* C10 amended: the same with 6 coverage lines.
C10_SampleSixLines ==
    (Priced /\ req = sample_quote_request(now_year)) =>
        /\ Len(out.coverages) = 6
        /\ [i \in DOMAIN out.discounts |-> out.discounts[i].name] =
             <<"Homeowner Discount", "Married Driver Discount",
               "Experienced Driver Discount", "New Vehicle Discount">>
        /\ QuoteTotalDiscounts = 22500
        /\ QuoteVehicleFactor = 111
        /\ QuoteFinalPremium = Max(5000, QuoteSubtotal - 22500)

\* C10 witness: the MCP tool priced its own sample request, above the floor.
C10_Witness ==
    /\ Priced /\ path = "mcp" /\ req = sample_quote_request(now_year)
    /\ QuoteFinalPremium = QuoteSubtotal - 22500
    /\ QuoteFinalPremium > 5000

-----------------------------------------------------------------------------
(* Properties of the age factor *)

AgeFactorComputed == out.kind = "age_factor"

\* The six brackets of the specification, in tenths
BracketFactor(age) ==
    CASE age < 20 -> 20
      [] age >= 20 /\ age < 25 -> 15
      [] age >= 25 /\ age < 30 -> 12
      [] age >= 30 /\ age < 60 -> 10
      [] age >= 60 /\ age < 70 -> 11
      [] age >= 70 -> 13

\* C6: the age factor is that of the six brackets at every age in 16..120,
\* and in particular 19 -> 2.0, 20 -> 1.5, 25 -> 1.2, 30 -> 1.0, 60 -> 1.1,
\* 70 -> 1.3.
C6_AgeBrackets ==
    AgeFactorComputed =>
        /\ out.age_factor = BracketFactor(req.age)
        /\ req.age = 19 => out.age_factor = 20
        /\ req.age = 20 => out.age_factor = 15
        /\ req.age = 25 => out.age_factor = 12
        /\ req.age = 30 => out.age_factor = 10
        /\ req.age = 60 => out.age_factor = 11
        /\ req.age = 70 => out.age_factor = 13

\* C6 witness: the factor of a driver exactly 20 years old is 1.5.
C6_Witness ==
    AgeFactorComputed /\ req.age = 20 /\ out.age_factor = 15

\* C7 as stated: from the age just computed on, the factor never goes down
\* and later up again, nor up and later down again.
C7_Monotone ==
    AgeFactorComputed =>
        \A b, c \in MinAge..MaxAge :
            (req.age <= b /\ b <= c) =>
                /\ ~(out.age_factor > _calculate_age_factor(b)
                        /\ _calculate_age_factor(b) < _calculate_age_factor(c))
                /\ ~(out.age_factor < _calculate_age_factor(b)
                        /\ _calculate_age_factor(b) > _calculate_age_factor(c))

\* C7 amended: the age factor never goes up through age 59 and never goes
\* down from age 30 on (it falls 2.0, 1.5, 1.2, 1.0 and then rises 1.0, 1.1,
\* 1.3), so it is monotone on 16..59 and on 30..120 but not on 16..120.
C7_DownThenUp ==
    AgeFactorComputed =>
        \A b \in MinAge..MaxAge :
            /\ (req.age <= b /\ b <= 59)
                  => _calculate_age_factor(b) <= out.age_factor
            /\ (30 <= req.age /\ req.age <= b)
                  => _calculate_age_factor(b) >= out.age_factor

\* C7 witness: the factor of a 16-year-old (2.0) is above that of a
\* 59-year-old (1.0), which is below that of a 120-year-old (1.3).
C7_Witness ==
    /\ AgeFactorComputed /\ req.age = 16
    /\ out.age_factor > _calculate_age_factor(59)
    /\ _calculate_age_factor(59) < _calculate_age_factor(120)

-----------------------------------------------------------------------------
(* Properties of the discounts *)

DiscountsComputed == out.kind = "discounts"

\* The discount of that name is in the list, exactly once, with that amount
HasDiscount(name, amount) ==
    /\ Cardinality({i \in DOMAIN out.discounts : out.discounts[i].name = name}) = 1
    /\ \A i \in DOMAIN out.discounts :
          out.discounts[i].name = name => out.discounts[i].amount = amount

NoDiscount(name) ==
    \A i \in DOMAIN out.discounts : out.discounts[i].name # name

DiscountIff(name, amount, condition) ==
    IF condition THEN HasDiscount(name, amount) ELSE NoDiscount(name)

Amount(amount, condition) == IF condition THEN amount ELSE 0

\* C8: each discount is present iff its own condition holds, with its own
\* amount, and total_discounts is the sum of the discounts present.
C8_DiscountsIndependent ==
    DiscountsComputed =>
        LET home == req.home_ownership = "Own"
            married == req.marital_status = "Married"
            experienced == 30 <= req.age /\ req.age <= 65
            multi == req.home_ownership = "Own" /\ req.coverage_level = "Premium"
            new == now_year - req.vehicle_year <= 3
            owner == req.car_ownership = "Own"
        IN  /\ DiscountIff("Homeowner Discount", 7500, home)
            /\ DiscountIff("Married Driver Discount", 5000, married)
            /\ DiscountIff("Experienced Driver Discount", 4000, experienced)
            /\ DiscountIff("Multi-Policy Discount", 10000, multi)
            /\ DiscountIff("New Vehicle Discount", 6000, new)
            /\ DiscountIff("Vehicle Owner Discount", 3000, owner)
            /\ Len(out.discounts) =
                 Cardinality({i \in DOMAIN out.discounts : out.discounts[i].name \in
                    {"Homeowner Discount", "Married Driver Discount",
                     "Experienced Driver Discount", "Multi-Policy Discount",
                     "New Vehicle Discount", "Vehicle Owner Discount"}})
            /\ out.total_discounts =
                 Amount(7500, home) + Amount(5000, married)
                 + Amount(4000, experienced) + Amount(10000, multi)
                 + Amount(6000, new) + Amount(3000, owner)

\* C8 witness: a 65-year-old renter with a 4-year-old financed car gets the
\* Experienced Driver discount alone.
C8_Witness ==
    /\ DiscountsComputed /\ req.age = 65 /\ req.home_ownership = "Rent"
    /\ req.vehicle_year = now_year - 4 /\ req.car_ownership = "Finance"
    /\ req.marital_status = "Single"
    /\ out.total_discounts = 4000 /\ Len(out.discounts) = 1

\* The profile of C9
AllSixProfile ==
    /\ req.home_ownership = "Own" /\ req.marital_status = "Married"
    /\ req.age = 40 /\ req.coverage_level = "Premium"
    /\ req.vehicle_year = now_year /\ req.car_ownership = "Own"

\* C9: the profile Own / Married / 40 / Premium / this year's vehicle / Own
\* gets all six discounts, 355 in total, and no valid profile gets more.
C9_AllSixIsMax ==
    DiscountsComputed =>
        /\ out.total_discounts <= 35500
        /\ AllSixProfile =>
              (Len(out.discounts) = 6 /\ out.total_discounts = 35500)

\* C9 witness: that profile was evaluated and got 355.
C9_Witness ==
    DiscountsComputed /\ AllSixProfile /\ out.total_discounts = 35500

-----------------------------------------------------------------------------
(* Properties of the quote repository *)

\* Every call named its own identifier, different from every other call's,
\* and has returned success
DistinctUpsertsDone ==
    /\ \A c \in Callers :
          /\ pc[c] = "done" /\ result[c].success
          /\ call[c].tool \in {"add_quote", "update_quote"}
          /\ call[c].quote_id # NoId
    /\ \A c, d \in Callers : c # d => call[c].quote_id # call[d].quote_id

RecordOf(id) == store[IndexOf(store, id)]

\* C2: a writer between its load and its persist holds the lock and its
\* loaded collection is the stored one (no other writer got in between);
\* and once NumCallers concurrent upserts to NumCallers distinct identifiers
\* have returned, the store that started empty holds exactly NumCallers
\* records, one under each identifier, with the fields its writer sent.
C2_NoLostWrites ==
    /\ \A c \in Callers : pc[c] = "loaded" => (lock = c /\ snap[c] = store)
    /\ DistinctUpsertsDone =>
          /\ Len(store) = NumCallers
          /\ \A c \in Callers :
                /\ HasId(store, call[c].quote_id)
                /\ \A f \in DOMAIN payload[c] :
                      RecordOf(call[c].quote_id)[f] = payload[c][f]

\* C2 witness: every caller added a quote under its own identifier, all
\* calls returned, and the store holds one record per caller.
C2_Witness ==
    /\ DistinctUpsertsDone
    /\ \A c \in Callers : call[c].tool = "add_quote"
    /\ Len(store) = NumCallers

\* The repository completes caller c's upsert in this step
Persisting(c) ==
    /\ pc[c] = "loaded" /\ pc'[c] = "done"
    /\ call[c].tool \in {"add_quote", "update_quote"}

\* The record an upsert to an absent id created, against the request and
\* against the arguments of the tool that sent it
Created(c, r) ==
    /\ r.id = target[c]
    /\ DOMAIN r = DOMAIN payload[c] \cup {"id"}
    /\ \A f \in DOMAIN payload[c] : r[f] = payload[c][f]
    /\ call[c].tool = "add_quote" =>
          /\ r.customer = call[c].customer /\ r.email = call[c].email
          /\ r.phone = call[c].phone /\ r.vehicle = call[c].vehicle
          /\ r.coverage = call[c].coverage /\ r.status = call[c].status
          /\ r.date = Today
          /\ ("premium" \in DOMAIN r) = Truthy(call[c].premium)
          /\ "premium" \in DOMAIN r => r.premium = call[c].premium
          /\ ("zip" \in DOMAIN r) = Truthy(call[c].zip_code)
    /\ call[c].tool = "update_quote" =>
          \A f \in UpdateFields \ {"date"} :
              IF call[c][f] = None THEN f \notin DOMAIN r ELSE r[f] = call[c][f]

\* The record an upsert to a present id left, against the record before
Merged(c, old, new) ==
    /\ new.id = old.id
    /\ DOMAIN new = DOMAIN old \cup DOMAIN payload[c]
    /\ \A f \in DOMAIN payload[c] : new[f] = payload[c][f]
    /\ \A f \in DOMAIN old \ DOMAIN payload[c] : new[f] = old[f]
    /\ call[c].tool = "update_quote" =>
          \A f \in (UpdateFields \ {"date"}) \cap DOMAIN old :
              new[f] = IF call[c][f] = None THEN old[f] ELSE call[c][f]

UpsertEffect(c) ==
    IF ~HasId(store, target[c])
    THEN /\ Len(store') = Len(store) + 1
         /\ \A i \in 1..Len(store) : store'[i] = store[i]
         /\ Created(c, store'[Len(store')])
    ELSE /\ Len(store') = Len(store)
         /\ \A i \in 1..Len(store) :
               IF store[i].id = target[c]
               THEN Merged(c, store[i], store'[i])
               ELSE store'[i] = store[i]

\* C3: an upsert to an id the store does not hold appends one record with
\* exactly the supplied fields and the id (the tools supply today's date as
\* a default); an upsert to an id the store holds sets the supplied fields
\* of that record and keeps its other fields; every other record is left
\* as it was.
C3_UpsertFrame == [][\A c \in Callers : Persisting(c) => UpsertEffect(c)]_vars

\* C3 witness: Q2000 was created with customer "Jane Doe" (and an old
\* date), then updated with status "contacted" alone: the record has both,
\* and the date of the later update.
C3_Witness ==
    /\ \E c, d \in Callers :
          /\ pc[c] = "done" /\ pc[d] = "done"
          /\ result[c].success /\ result[d].success
          /\ call[c] = UpdateQuoteArgs(2000, "Jane Doe", None, "2020-01-01")
          /\ call[d] = UpdateQuoteArgs(2000, None, "contacted", None)
    /\ store = <<[id |-> 2000, customer |-> "Jane Doe",
                  status |-> "contacted", date |-> Today]>>

-----------------------------------------------------------------------------
(* Properties of the returned quote *)

QuoteBasePremium ==
    IF path = "mcp" THEN out.pricing_factors.base_premium ELSE out.base_premium

\* The adjusted premium of the request at full precision: the base premium
\* times the five factors as the factor functions return them
FullPrecisionProduct ==
    BigProduct(<<SumField(out.coverages, "premium"),
                 _calculate_age_factor(req.age),
                 _calculate_location_factor(req.zip_code),
                 _calculate_marital_factor(req.marital_status),
                 _calculate_vehicle_factor(req.vehicle_category, req.vehicle_year,
                     req.vehicle_value, req.car_ownership, now_year),
                 _calculate_driving_factor(req.driving_frequency)>>)

\* s cents is the amount nearest to the exact product n
NearestCent(s, n) ==
    LET q == AdjHigh(n) \div 10
        r == AdjHigh(n) % 10
    IN  \/ s = q /\ (r < 5 \/ (r = 5 /\ BigLowZero(n, 6)))
        \/ s = q + 1 /\ r >= 5

\* C11: in every quote returned, base_premium is the sum of the coverage
\* line premiums, subtotal is base_premium times the five factors (the
\* factors at the precision the engine multiplies them, the product to the
\* nearest cent), total_discounts is the sum of the discount amounts, and
\* final_premium = max(50, subtotal - total_discounts).
C11_QuoteArithmetic ==
    Priced =>
        /\ QuoteBasePremium = SumField(out.coverages, "premium")
        /\ NearestCent(QuoteSubtotal, FullPrecisionProduct)
        /\ QuoteTotalDiscounts = SumField(out.discounts, "amount")
        /\ QuoteFinalPremium = Max(5000, QuoteSubtotal - QuoteTotalDiscounts)

\* C11 witness: the sample request, whose exact product 1479.3192 is not a
\* whole number of cents and is rounded up: subtotal 1479.32, less 225.
C11_Witness ==
    /\ Priced /\ req = sample_quote_request(now_year)
    /\ AdjHigh(FullPrecisionProduct) % 10 >= 5
    /\ QuoteSubtotal = 147932
    /\ QuoteFinalPremium = 147932 - 22500

-----------------------------------------------------------------------------
(* Properties of the quote-management tools *)

\* The repository answers caller c's lookup or update in this step (the
\* request was served: the result is not a transport failure)
Answered(c) ==
    /\ pc[c] # "done" /\ pc'[c] = "done"
    /\ call'[c].tool \in {"get_quote", "update_quote"}
    /\ result'[c] # ErrorResult(FailedTo(call'[c].tool))

\* C12: a lookup or an update by an id the collection does not hold returns
\* the error value "Quote <id> not found" and leaves the collection as it
\* was (no record is created).
C12_AbsentIsNotFound ==
    [][\A c \in Callers :
          (Answered(c) /\ ~HasId(store, call'[c].quote_id)) =>
              (result'[c] = NotFound(call'[c].quote_id) /\ store' = store)]_vars

\* No two records of the collection share an id
UniqueIds ==
    \A i, j \in 1..Len(store) : store[i].id = store[j].id => i = j

\* No request body in flight carries an id field of its own
NoIdInPayload == \A c \in Callers : "id" \notin DOMAIN payload[c]

\* A step keeps every record there is, under the id it has
IdsKept ==
    /\ Len(store') >= Len(store)
    /\ \A i \in 1..Len(store) : store'[i].id = store[i].id

\* C13: whatever list, get, update, add and email calls have run, in any
\* interleaving, no two records share an id, no tool sends an id field to
\* overwrite one, and no step changes the id of a record that exists.
C13_IdUniqueImmutable == [](UniqueIds /\ NoIdInPayload) /\ [][IdsKept]_vars

\* C13 witness: Q2000 was added and then emailed; there is one record, still
\* Q2000, with the status the email action set.
C13_Witness ==
    /\ \E c, d \in Callers :
          /\ pc[c] = "done" /\ call[c].tool = "add_quote"
          /\ call[c].quote_id = 2000 /\ result[c].success
          /\ pc[d] = "done" /\ call[d].tool = "send_quote_email"
          /\ call[d].quote_id = 2000 /\ result[d].success
    /\ Len(store) = 1 /\ store[1].id = 2000 /\ store[1].status = "contacted"

-----------------------------------------------------------------------------
(* Properties of the location factor *)

-----------------------------------------------------------------------------
(* Properties of the engine called directly *)

\* The member of an enumeration, or else the substitute
MemberOr(v, enum, substitute) == IF v \in enum THEN v ELSE substitute

\* The request with every out-of-enum value replaced by the member of the
\* enumeration whose multiplier is 1.0
Neutralized(r) ==
    [r EXCEPT !.vehicle_category = MemberOr(@, VehicleCategory, "Standard"),
              !.coverage_level = MemberOr(@, CoverageLevel, "Basic"),
              !.marital_status = MemberOr(@, MaritalStatus, "Divorced"),
              !.car_ownership = MemberOr(@, CarOwnership, "Finance"),
              !.vehicle_value = MemberOr(@, VehicleValue, "$5,000 - $40,000"),
              !.driving_frequency = MemberOr(@, DrivingFrequency, "Average")]

\* The priced fields of a quote returned by the engine
PricedFields(q) ==
    <<q.base_premium, q.age_factor, q.location_factor, q.marital_factor,
      q.vehicle_factor, q.driving_factor, q.subtotal, q.total_discounts,
      q.final_premium>>

\* C15: called with any value of marital_status, vehicle_category,
\* vehicle_value, car_ownership, driving_frequency or coverage_level, the
\* engine returns a complete quote; an out-of-enum value gets the multiplier
\* 1.0, so the quote is priced as with the neutral member in its place.
C15_NoErrorPath ==
    path = "engine" =>
        /\ out.kind = "quote"
        /\ Len(out.coverages) >= 3 /\ out.final_premium >= 5000
        /\ req.marital_status \notin MaritalStatus => out.marital_factor = 100
        /\ req.driving_frequency \notin DrivingFrequency => out.driving_factor = 100
        /\ req.coverage_level \notin CoverageLevel => out.base_premium = 50000
        /\ ( /\ req.vehicle_category \notin VehicleCategory
             /\ req.vehicle_value \notin VehicleValue
             /\ req.car_ownership \notin CarOwnership ) => out.vehicle_factor = 111
        /\ PricedFields(out)
             = PricedFields(calculate_insurance_quote(Neutralized(req), now_year))

\* C15 witness: every string parameter out of its enumeration; the quote
\* is the three liability lines at 500 with all multipliers neutral.
C15_Witness ==
    /\ path = "engine" /\ out.kind = "quote"
    /\ req.vehicle_category = "Sports" /\ req.coverage_level = "Gold"
    /\ req.marital_status = "Separated" /\ req.car_ownership = "Rent"
    /\ req.vehicle_value = "Unknown" /\ req.driving_frequency = "Daily"
    /\ out.base_premium = 50000 /\ out.marital_factor = 100
    /\ out.vehicle_factor = 111 /\ out.driving_factor = 100

-----------------------------------------------------------------------------
(* Properties of request validation *)

\* The constraints of a request: every enum field in its enumeration, age
\* in 16..120, vehicle year in range, and a ZIP code of exactly 5 digits
MeetsConstraints(r, current_year) ==
    /\ r.vehicle_category \in VehicleCategory
    /\ r.coverage_level \in CoverageLevel
    /\ r.marital_status \in MaritalStatus
    /\ r.home_ownership \in HomeOwnership
    /\ r.car_ownership \in CarOwnership
    /\ r.vehicle_value \in VehicleValue
    /\ r.driving_frequency \in DrivingFrequency
    /\ r.age \in MinAge..MaxAge
    /\ r.vehicle_year \in (current_year - MaxVehicleAge)..(current_year + MaxYearAhead)
    /\ ZipLen(r.zip_code) = 5 /\ ZipIsDigit(r.zip_code)

\* C16: whichever entry point handled it, a request that breaks a
\* constraint is answered with an error value that gives a reason and is
\* not priced, and a request that meets all constraints is priced.
C16_ValidationPrecedesPricing ==
    path # "none" =>
        IF MeetsConstraints(req, now_year)
        THEN out.kind = "quote"
        ELSE out.kind = "error" /\ out.error # ""

-----------------------------------------------------------------------------
(* Properties of the vehicle factor *)

\* The sub-factors as the claim lists them: category and value in tenths,
\* ownership in hundredths
ClaimedCategoryFactor(cat) ==
    CASE cat = "Economy" -> 9 [] cat = "Standard" -> 10 [] cat = "Luxury" -> 13

ClaimedValueFactor(val) ==
    CASE val = "Under $5,000" -> 8 [] val = "$5,000 - $40,000" -> 10
      [] val = "Over $40,000" -> 13

ClaimedOwnershipFactor(car) ==
    CASE car = "Own" -> 95 [] car = "Finance" -> 100 [] car = "Lease" -> 105

\* C17: the vehicle factor is category x year term x value x ownership; the
\* year term is 1.2 - 0.03 x age for a vehicle less than 14 years old (1.23
\* for next year's model: there is no cap) and the floor 0.8 from 14 years
\* on, so it is never below 0.8 and is 0.8 exactly at 14 years or more.
C17_VehicleFactor ==
    out.kind = "vehicle_factor" =>
        LET vehicle_age == now_year - req.vehicle_year
            year_term == IF vehicle_age >= 14 THEN 80 ELSE 120 - 3 * vehicle_age
        IN  /\ out.vehicle_factor =
                  ClaimedCategoryFactor(req.vehicle_category) * year_term
                  * ClaimedValueFactor(req.vehicle_value)
                  * ClaimedOwnershipFactor(req.car_ownership)
            /\ year_term >= 80
            /\ (year_term = 80) = (vehicle_age >= 14)

\* C17 witness: a leased luxury vehicle over $40,000, 14 years old, the
\* first age at the floor: 1.3 x 0.8 x 1.3 x 1.05 = 1.4196.
C17_Witness ==
    /\ out.kind = "vehicle_factor"
    /\ req.vehicle_category = "Luxury" /\ req.vehicle_value = "Over $40,000"
    /\ req.car_ownership = "Lease" /\ req.vehicle_year = now_year - 14
    /\ out.vehicle_factor = 1419600

-----------------------------------------------------------------------------
(* Properties of the email action *)

\* The repository completes caller c's email action in this step
Emailing(c) ==
    /\ pc[c] = "loaded" /\ pc'[c] = "done"
    /\ call[c].tool = "send_quote_email"

\* The record after the email action, against the record before: the
\* status is "contacted", nothing else is added, dropped or changed
StatusOnly(old, new) ==
    /\ new.status = "contacted"
    /\ DOMAIN new = DOMAIN old \cup {"status"}
    /\ \A f \in DOMAIN old \ {"status"} : new[f] = old[f]

-----------------------------------------------------------------------------
(* Properties of update_quote's payload *)

\* The fields caller c passed to update_quote (not left None)
Provided(c) == {f \in UpdateFields : call[c][f] # None}

\* update_quote calls whose request has been built
Updating(c) == call[c].tool = "update_quote"

\* The repository completes caller c's update of a present record
UpdatingPresent(c) ==
    Persisting(c) /\ Updating(c) /\ HasId(store, call[c].quote_id)

-----------------------------------------------------------------------------
(* Properties of the bootstrap *)

\* The ids of the records of a collection
IdsOf(records) == {records[i].id : i \in 1..Len(records)}

\* A process that has read holds the collection of a store that exists
ReadsStoredCollection ==
    \A c \in Callers : pc[c] = "loaded" => (exists /\ snap[c] = store)

\* Nobody prepares a seed once the store exists, and the store that exists
\* holds the seed's records
SeededOnce ==
    /\ exists => \A c \in Callers : pc[c] # "seeding"
    /\ exists => IdsOf(SeedRecords) \subseteq IdsOf(store)
    /\ ~exists => store = <<>>

\* A step creates the store only as the seed, never removes it, and changes
\* an existing store only by the upsert of the process holding the lock
SeedKept ==
    /\ (~exists /\ exists') => store' = SeedRecords
    /\ exists => exists'
    /\ (exists /\ store' # store) =>
          \E c \in Callers :
              lock = c /\ store' = upsert(store, target[c], payload[c])

\* C20: a missing store is seeded with the example records before a process
\* reads; over every interleaving of operations and restarts the store is
\* seeded at most once, the seed is persisted, and a later process reads
\* the stored collection, which is never seeded over.
C20_SeededAtMostOnce ==
    [](ReadsStoredCollection /\ SeededOnce) /\ [][SeedKept]_vars

\* C20 witness: after the seeding, both ids callers name were upserted, and
\* a process started after that has read the stored collection: the seed's
\* records and the two upserted ones.
C20_Witness ==
    /\ exists
    /\ Len(store) = Len(SeedRecords) + Cardinality(TargetIds)
    /\ IdsOf(store) = IdsOf(SeedRecords) \cup TargetIds
    /\ \E c \in Callers : pc[c] = "loaded" /\ snap[c] = store

-----------------------------------------------------------------------------
(* Properties of the quote reference *)

\* C21: every quote id minted by either copy of the engine is "QM-", the
\* current date as 8 digits (4 of the year, 2 of the month, 2 of the day),
\* "-", and an integer of exactly 4 digits, 1000..9999.
C21_QuoteIdForm ==
    out.kind = "quote_id" =>
        /\ out.quote_id.prefix = "QM-"
        /\ out.quote_id.hyphen = "-"
        /\ Len(out.quote_id.date) = 8
        /\ \A i \in 1..8 : out.quote_id.date[i] \in 0..9
        /\ out.quote_id.date[1] * 1000 + out.quote_id.date[2] * 100
             + out.quote_id.date[3] * 10 + out.quote_id.date[4] = now_year
        /\ out.quote_id.date[5] * 10 + out.quote_id.date[6] = now.month
        /\ out.quote_id.date[7] * 10 + out.quote_id.date[8] = now.day
        /\ Len(out.quote_id.number) = 4
        /\ out.quote_id.number[1] \in 1..9
        /\ \A i \in 2..4 : out.quote_id.number[i] \in 0..9

\* C21 witness: on 1 February the MCP server mints QM-<year>0201-1000, the
\* smallest suffix, with zero-padded month and day.
C21_Witness ==
    /\ path = "mcp"
    /\ out.kind = "quote_id"
    /\ now.month = 2 /\ now.day = 1
    /\ SubSeq(out.quote_id.date, 5, 8) = <<0, 2, 0, 1>>
    /\ out.quote_id.number = <<1, 0, 0, 0>>

\* The date that follows a date
NextDate(date) ==
    IF date.day < days_in_month(date.year, date.month)
    THEN [date EXCEPT !.day = @ + 1]
    ELSE IF date.month < 12
         THEN [date EXCEPT !.month = @ + 1, !.day = 1]
         ELSE [year |-> date.year + 1, month |-> 1, day |-> 1]

\* The date a number of days after a date
RECURSIVE DateAfter(_, _)
DateAfter(date, days) ==
    IF days = 0 THEN date ELSE DateAfter(NextDate(date), days - 1)

\* The current date plus 30 days, as the three numbers of a calendar date
CurrentDatePlus30 ==
    DateAfter([year |-> now_year, month |-> now.month, day |-> now.day], 30)

\* The calendar date an expiration_date string spells
DateSpelled(text) ==
    [year |-> text[1][1] * 1000 + text[1][2] * 100 + text[1][3] * 10 + text[1][4],
     month |-> text[2][1] * 10 + text[2][2],
     day |-> text[3][1] * 10 + text[3][2]]

\* C22: at any instant of the day the expiration date of the backend path
\* and that of the MCP path are the same calendar date, the current date
\* plus 30 days.
C22_SameExpirationDate ==
    /\ out.kind = "expiration" /\ out.backend # NoDate
          => DateSpelled(out.backend) = CurrentDatePlus30
    /\ out.kind = "expiration" /\ out.mcp # NoDate
          => DateSpelled(out.mcp) = CurrentDatePlus30
    /\ out.kind = "expiration" /\ out.backend # NoDate /\ out.mcp # NoDate
          => out.backend = out.mcp

\* C22 witness: in the last second of 2 December both paths give 1 January
\* of the next year.
C22_Witness ==
    /\ out.kind = "expiration"
    /\ now.month = 12 /\ now.day = 2 /\ now.second = SecondsPerDay - 1
    /\ out.backend # NoDate /\ out.mcp # NoDate
    /\ out.backend = out.mcp
    /\ DateSpelled(out.mcp) = [year |-> now_year + 1, month |-> 1, day |-> 1]

-----------------------------------------------------------------------------
(* Properties of the order of coverage lines and discounts *)

\* The order coverage lines are claimed to appear in
CoverageOrder ==
    <<"Bodily Injury Liability", "Property Damage Liability",
      "Uninsured/Underinsured Motorist Bodily Injury", "Rental Car Coverage",
      "Comprehensive", "Collision">>

\* The order discounts are claimed to appear in
DiscountOrder ==
    <<"Homeowner Discount", "Married Driver Discount",
      "Experienced Driver Discount", "Multi-Policy Discount",
      "New Vehicle Discount", "Vehicle Owner Discount">>

\* The names of a sequence of lines, in their order
NamesOf(lines) == [i \in 1..Len(lines) |-> lines[i].name]

\* A fixed order cut down to the items that are present
RECURSIVE Restricted(_, _)
Restricted(order, present) ==
    IF order = <<>> THEN <<>>
    ELSE (IF Head(order) \in present THEN <<Head(order)>> ELSE <<>>)
         \o Restricted(Tail(order), present)

\* C23: in every quote, of either copy, the coverage lines are in the order
\* Bodily Injury, Property Damage, Uninsured/Underinsured Motorist, Rental,
\* Comprehensive, Collision, and the discounts in the order Homeowner,
\* Married, Experienced Driver, Multi-Policy, New Vehicle, Vehicle Owner:
\* each sequence is the fixed order cut down to the items present.
C23_FixedOrder ==
    Priced =>
        /\ NamesOf(out.coverages) =
              Restricted(CoverageOrder, {out.coverages[i].name : i \in 1..Len(out.coverages)})
        /\ NamesOf(out.discounts) =
              Restricted(DiscountOrder, {out.discounts[i].name : i \in 1..Len(out.discounts)})

\* C23 witness: a backend quote with all six coverage lines and all six
\* discounts, each in the claimed order.
C23_Witness ==
    /\ Priced /\ path = "backend"
    /\ NamesOf(out.coverages) = CoverageOrder
    /\ NamesOf(out.discounts) = DiscountOrder

-----------------------------------------------------------------------------
(* Properties of coverage pricing *)

\* The tier multiplier 1.0 / 1.3 / 1.7, in tenths
ClaimedTier == [Basic |-> 10, Standard |-> 13, Premium |-> 17]

\* The coverage-local value scale 0.8 / 1.0 / 1.4, in tenths
ClaimedCoverageValueScale ==
    ("Under $5,000" :> 8) @@ ("$5,000 - $40,000" :> 10) @@ ("Over $40,000" :> 14)

\* The Premium-only 1.2, in tenths
ClaimedPremiumOnly == [Basic |-> 10, Standard |-> 10, Premium |-> 12]

\* The premium claimed for a coverage line, in cents
ClaimedLinePremium(name, level, value) ==
    CASE name = "Bodily Injury Liability" -> 250 * ClaimedTier[level] * 10
      [] name = "Property Damage Liability" -> 150 * ClaimedTier[level] * 10
      [] name = "Uninsured/Underinsured Motorist Bodily Injury" -> 100 * ClaimedTier[level] * 10
      [] name = "Rental Car Coverage" -> 50 * ClaimedPremiumOnly[level] * 10
      [] name = "Comprehensive" -> 200 * ClaimedCoverageValueScale[value] * ClaimedPremiumOnly[level]
      [] name = "Collision" -> 300 * ClaimedCoverageValueScale[value] * ClaimedPremiumOnly[level]

\* The base premiums claimed, in dollars, by coverage level and vehicle value
ClaimedBasePremium ==
    [Basic |-> ("Under $5,000" :> 500) @@ ("$5,000 - $40,000" :> 500) @@ ("Over $40,000" :> 500),
     Standard |-> ("Under $5,000" :> 1100) @@ ("$5,000 - $40,000" :> 1200) @@ ("Over $40,000" :> 1400),
     Premium |-> ("Under $5,000" :> 1390) @@ ("$5,000 - $40,000" :> 1510) @@ ("Over $40,000" :> 1750)]

\* C24: in every quote for a valid request the liability lines carry only
\* the tier multiplier, Rental only the Premium-only 1.2, Comprehensive and
\* Collision the coverage-local value scale and the Premium-only 1.2, and
\* the base premium is 500 for Basic at every vehicle value, 1100 / 1200 /
\* 1400 for Standard and 1390 / 1510 / 1750 for Premium.
C24_CoveragePricing ==
    (Priced /\ QuoteRequestValid(req, now_year)) =>
        /\ \A i \in 1..Len(out.coverages) :
              out.coverages[i].premium =
                  ClaimedLinePremium(out.coverages[i].name, req.coverage_level, req.vehicle_value)
        /\ QuoteBasePremium = 100 * ClaimedBasePremium[req.coverage_level][req.vehicle_value]

\* C24 witness: a Premium quote for a vehicle over $40,000 on the backend
\* has the base premium 1750 and a Collision line of 300 x 1.4 x 1.2 = 504.
C24_Witness ==
    /\ Priced /\ QuoteRequestValid(req, now_year) /\ path = "backend"
    /\ req.coverage_level = "Premium" /\ req.vehicle_value = "Over $40,000"
    /\ QuoteBasePremium = 175000
    /\ out.coverages[6].name = "Collision" /\ out.coverages[6].premium = 50400

-----------------------------------------------------------------------------
(* Properties of the ids add_quote generates *)

\* The numbers of the ids of the form Q<digits> in a collection
QNumbers(records) == {n \in IdsOf(records) : IsQNumber(n)}

\* Caller c's add_quote, called without quote_id, lists the quotes and
\* chooses its id in this step
GeneratingId(c) ==
    /\ pc[c] = "idle" /\ pc'[c] = "posting"
    /\ call'[c].tool = "add_quote" /\ call'[c].quote_id = NoId

\* The repository completes the post of caller c's add_quote without
\* quote_id, and the collection is still as it would be listed for that id
AddingUninterleaved(c) ==
    /\ Persisting(c)
    /\ call[c].tool = "add_quote" /\ call[c].quote_id = NoId
    /\ target[c] = AddQuoteId(NoId, store)

AddedWithoutId(c) ==
    /\ pc[c] = "done" /\ result[c].success
    /\ call[c].tool = "add_quote" /\ call[c].quote_id = NoId

\* C26: two add_quote calls without quote_id, however their list, id choice
\* and post interleave, get distinct ids; after both have returned, both
\* records exist and each holds the fields its own caller sent.
C26_ConcurrentAddsDistinct ==
    \A c, d \in Callers :
        (c # d /\ AddedWithoutId(c) /\ AddedWithoutId(d)) =>
            /\ target[c] # target[d]
            /\ HasId(store, target[c]) /\ HasId(store, target[d])
            /\ \A f \in DOMAIN payload[c] : RecordOf(target[c])[f] = payload[c][f]
            /\ \A f \in DOMAIN payload[d] : RecordOf(target[d])[f] = payload[d][f]

-----------------------------------------------------------------------------
(* Properties of calculate_and_save_quote *)

\* Caller c's calculate_and_save_quote takes its first step
Calculating(c) ==
    pc[c] = "idle" /\ pc'[c] # "idle" /\ call'[c].tool = "calculate_and_save_quote"

\* The calculation of the request of c's call cannot succeed
CalculationFails(c) == proxy_calculate_quote(call'[c].request, now_year).kind = "error"

\* The step stores caller c's record
Saving(c) == pc[c] = "loaded" /\ pc'[c] = "done"

\* C27: calculate_and_save_quote writes only after a successful calculation.
\* When the calculation returns an error the tool returns that error with
\* no quote, and no list or save request is made; a step changes the store
\* only as the save of a caller whose calculation succeeded; a failed save
\* returns an error with the calculated quote; on success the returned
\* quote_id is the id the record was stored under, and the record's premium
\* is the final premium of the returned quote, printed as $<dollars>.<cents>.
C27_SaveAfterCalculation ==
    [][\A c \in Callers :
          /\ (Calculating(c) /\ CalculationFails(c)) =>
                /\ pc'[c] = "done"
                /\ "quote_calculation" \notin DOMAIN result'[c]
          /\ (Calculating(c) /\ pc'[c] = "done") =>
                /\ ~result'[c].success
                /\ target'[c] = NoId /\ payload'[c] = <<>>
                /\ store' = store
          /\ (Calculating(c) /\ pc'[c] = "posting") =>
                proxy_calculate_quote(call'[c].request, now_year).kind = "quote"
          /\ (pc[c] = "posting" /\ pc'[c] = "done") =>
                /\ ~result'[c].success
                /\ result'[c].quote_calculation.kind = "quote"
                /\ store' = store
          /\ Saving(c) =>
                /\ result'[c].success
                /\ result'[c].quote_details.kind = "quote"
                /\ HasId(store', result'[c].quote_id)
                /\ store'[IndexOf(store', result'[c].quote_id)].premium
                      = FormatDollars(result'[c].quote_details.final_premium)
                /\ store'[IndexOf(store', result'[c].quote_id)].customer
                      = call[c].customer
          /\ (store' # store) => \E d \in Callers : Saving(d)]_vars

\* C27 witness: the sample request was calculated and saved for John Smith
\* as Q1001 with the premium of the quote that was returned.
C27_Witness ==
    \E c \in Callers :
        /\ pc[c] = "done" /\ result[c].success
        /\ call[c].tool = "calculate_and_save_quote"
        /\ call[c].request = sample_quote_request(now_year)
        /\ call[c].customer = "John Smith"
        /\ result[c].quote_id = 1000 + 1
        /\ store = <<CreateRecord(1000 + 1, payload[c])>>
        /\ store[1].premium = FormatDollars(result[c].quote_details.final_premium)
        /\ store[1].vehicle = vehicle_description(call[c].request)

-----------------------------------------------------------------------------
(* Properties of the two copies of the pipeline *)

\* Both copies have priced the request
BothPriced == out.kind = "copies" /\ {"backend", "mcp"} \subseteq DOMAIN out

\* C28: on every request that meets the constraints the backend's
\* calculate_insurance_quote and the MCP server's calculate_quote return
\* the same coverage lines, base premium, five factors, discounts,
\* subtotal, total_discounts and final_premium.
C28_CopiesAgree ==
    (BothPriced /\ MeetsConstraints(req, now_year)) =>
        /\ out.backend.kind = "quote" /\ out.mcp.kind = "quote"
        /\ out.mcp.coverages = out.backend.coverages
        /\ out.mcp.pricing_factors.base_premium = out.backend.base_premium
        /\ out.mcp.pricing_factors.age_factor = out.backend.age_factor
        /\ out.mcp.pricing_factors.location_factor = out.backend.location_factor
        /\ out.mcp.pricing_factors.marital_factor = out.backend.marital_factor
        /\ out.mcp.pricing_factors.vehicle_factor = out.backend.vehicle_factor
        /\ out.mcp.pricing_factors.driving_factor = out.backend.driving_factor
        /\ out.mcp.discounts = out.backend.discounts
        /\ out.mcp.pricing_summary.subtotal = out.backend.subtotal
        /\ out.mcp.pricing_summary.total_discounts = out.backend.total_discounts
        /\ out.mcp.pricing_summary.final_premium = out.backend.final_premium

\* C28 witness: both copies priced a Premium request of a 70-year-old who
\* drives a lot, with six coverage lines each and the same final premium
\* above the floor.
C28_Witness ==
    /\ BothPriced /\ MeetsConstraints(req, now_year)
    /\ req.coverage_level = "Premium" /\ req.age = 70
    /\ req.driving_frequency = "A Lot"
    /\ Len(out.backend.coverages) = 6 /\ Len(out.mcp.coverages) = 6
    /\ out.mcp.pricing_summary.final_premium = out.backend.final_premium
    /\ out.backend.final_premium > 5000

-----------------------------------------------------------------------------
(* Properties of add_quote's failures *)

\* Caller c's add_quote got an error from list_quotes
ListFailed(c) ==
    /\ call[c].tool = "add_quote"
    /\ ~result[c].success /\ result[c].error = "Failed to list quotes"

\* C29: an add_quote whose list of the existing quotes failed has returned
\* that error, has generated no id and posts no record, and its step left
\* the repository unchanged; an add_quote whose post failed returns an
\* error value, and that step too leaves the repository unchanged.
C29_AddQuoteFailures ==
    /\ [](\A c \in Callers : ListFailed(c) =>
             pc[c] = "done" /\ target[c] = NoId /\ payload[c] = <<>>)
    /\ [][\A c \in Callers :
             /\ (pc[c] = "idle" /\ pc'[c] = "done" /\ call'[c].tool = "add_quote") =>
                   /\ ~result'[c].success
                   /\ result'[c].error = "Failed to list quotes"
                   /\ store' = store
             /\ (pc[c] = "posting" /\ pc'[c] = "done" /\ call[c].tool = "add_quote") =>
                   /\ ~result'[c].success
                   /\ result'[c].error = "Failed to add quote"
                   /\ store' = store]_vars

\* C29 witness: one add_quote returned the error of its list, another the
\* error of its post, and the collection is still empty.
C29_Witness ==
    /\ store = <<>>
    /\ \E c, d \in Callers :
          /\ pc[c] = "done" /\ ListFailed(c) /\ target[c] = NoId
          /\ pc[d] = "done" /\ call[d].tool = "add_quote"
          /\ ~result[d].success /\ result[d].error = "Failed to add quote"
          /\ target[d] # NoId

-----------------------------------------------------------------------------
(* Properties of the coverage explanation *)

\* A level has been explained and a request at that level has been priced
ExplainedAndPriced ==
    /\ out.kind = "explained"
    /\ out.explanation.kind = "explanation" /\ out.quote.kind = "quote"
    /\ out.explanation.coverage_level = out.quote.quote_details.coverage_level

\* C30: for every coverage level the explanation lists as many coverages as
\* the engine prices lines (at Basic neither has Rental, Comprehensive or
\* Collision), and the Comprehensive and Collision deductibles it states
\* are the amounts of the priced lines.
C30_ExplanationMatchesPricing ==
    ExplainedAndPriced =>
        /\ Cardinality(DOMAIN out.explanation.coverages) = Len(out.quote.coverages)
        /\ \A name \in {"Rental Car Coverage", "Comprehensive", "Collision"} :
              /\ (name \in DOMAIN out.explanation.coverages)
                    <=> (\E i \in 1..Len(out.quote.coverages) : out.quote.coverages[i].name = name)
              /\ out.explanation.coverage_level = "Basic"
                    => name \notin DOMAIN out.explanation.coverages
        /\ \A i \in 1..Len(out.quote.coverages) :
              out.quote.coverages[i].name \in {"Comprehensive", "Collision"} =>
                  out.explanation.coverages[out.quote.coverages[i].name]
                      = out.quote.coverages[i].amount

\* C30 witness: Basic is explained with three coverages and priced with
\* three lines.
C30_Witness ==
    /\ ExplainedAndPriced
    /\ out.explanation.coverage_level = "Basic"
    /\ Cardinality(DOMAIN out.explanation.coverages) = 3
    /\ Len(out.quote.coverages) = 3

====
